---- MODULE Spec2Model ----
(***************************************************************************)
(* Recording session orchestrator of clipforge-tauri                       *)
(* (src-tauri/src/commands/recording/mod.rs and screen_capture.rs).        *)
(*                                                                         *)
(* The RecordingManager lives behind one std::sync::Mutex.  Tauri runs     *)
(* each command as its own call, so a command is a sequence of steps:      *)
(* every block that holds the manager lock is one step (or, for            *)
(* stop_recording, which keeps the lock across the whole subprocess        *)
(* shutdown, a run of steps with the lock held), and the code between two  *)
(* lock blocks is a step any other call can interleave with.               *)
(*                                                                         *)
(* Time is the wall clock in milliseconds, read by                         *)
(* chrono::Utc::now().timestamp_millis(); it is modelled as a              *)
(* non-decreasing counter.  RecordingState.duration is kept in             *)
(* milliseconds (the code divides by 1000.0 to get seconds).               *)
(* Option<T> is a sequence of length 0 (None) or 1 (Some).                 *)
(***************************************************************************)
EXTENDS Integers, Sequences, FiniteSets, TLC

\* ------------------------------------------------------------------ bounds
\* Largest clock value explored.
MaxTime == 1
\* Number of start_recording calls that get past the first check (each
\* allocates a temp file and may spawn one encoder process and one duration
\* task).  Any number of them may be in flight at once.
MaxStarts == 2

\* start_preview_for_source calls in a behaviour
MaxPreviewStarts == 2

\* Frames pushed onto the frame queue in a behaviour
MaxFrames == 122

\* ------------------------------------------------------------------ Option
None == <<>>
Some(x) == <<x>>
IsSome(o) == o # <<>>
Unwrap(o) == o[1]

VARIABLES
    now,                \* wall clock (ms)
    lock,               \* "free", or "stop" while a stop_recording call holds the manager mutex
    current_recording,  \* RecordingManager.current_recording : Option<RecordingState>
    capture_session,    \* RecordingManager.capture_session : Option<ScreenCaptureSession>
    duration_task,      \* RecordingManager.duration_task : Option<JoinHandle>
    active_files,       \* TempFileManager.active_files : Vec<PathBuf>
    procs,              \* encoder processes spawned so far, by pid
    tasks,              \* duration-tracking tasks spawned so far
    starts,             \* the start_recording calls so far, by call number
    stop,               \* the stop_recording call in flight (it holds the lock throughout)
    done,               \* the command response delivered by the last step, if any
    failed_stops,       \* pids of sessions for which stop_recording returned an error
    ok_starts,          \* numbers of the start_recording calls that returned Ok
    paused_ms,          \* clock time the stored session has spent in status Paused
    stopped,            \* pids of sessions for which stop_recording returned Ok
    temp_lock,          \* holder of the TempFileManager mutex, in the specification of the locks
    ops,                \* position of each operation, in the specification of the locks
    cfg,                \* the configuration under validation, in the specification of validate
    fs,                 \* the files of the temp directory, in the specification of the cleanups
    pv_session,         \* the PreviewCaptureSession behind its mutex
    pv_flags,           \* the should_stop flags (AtomicBool) created so far
    pv_tasks,           \* the frame-polling tasks spawned so far
    pv_calls,           \* the start_preview_for_source calls under way
    frame_queue,        \* the bridge's inbound frame queue
    pushed              \* number of frames pushed so far

vars == <<now, lock, current_recording, capture_session, duration_task,
          active_files, procs, tasks, starts, stop, done, failed_stops, ok_starts,
          paused_ms, stopped, temp_lock, ops, cfg,
          fs, pv_session, pv_flags, pv_tasks, pv_calls, frame_queue, pushed>>

\* The variables of the temp-file cleanups, of the preview and of the frame queue.
more == <<fs, pv_session, pv_flags, pv_tasks, pv_calls, frame_queue, pushed>>

\* The variables the recording commands never touch.
aux == <<temp_lock, ops, cfg, more>>

\* --------------------------------------------------------- RecordingConfig
\* Default for RecordingConfig
DefaultConfig ==
    [width |-> 1920, height |-> 1080, frame_rate |-> 30, video_bitrate |-> 5000,
     video_codec |-> "h264", audio_sample_rate |-> 48000, audio_channels |-> 2,
     audio_bitrate |-> 128, audio_codec |-> "aac", output_format |-> "mp4"]

\* RecordingConfig::validate_codec_compatibility: TRUE when it returns Ok.
validate_codec_compatibility(c) ==
    CASE c.output_format = "mp4" ->
            /\ c.video_codec \in {"h264", "h265", "hevc"}
            /\ c.audio_codec \in {"aac", "mp3"}
      [] c.output_format = "webm" ->
            /\ c.video_codec \in {"vp8", "vp9", "av1"}
            /\ c.audio_codec \in {"vorbis", "opus"}
      [] c.output_format = "mkv" -> TRUE
      [] c.output_format = "mov" ->
            c.video_codec \in {"h264", "h265", "hevc", "prores"}
      [] OTHER -> FALSE

\* A validate whose upper limits are exclusive.
validate_ExclusiveMax(c) ==
    /\ ~(c.width = 0 \/ c.height = 0)
    /\ ~(c.width >= 7680 \/ c.height >= 4320)
    /\ ~(c.frame_rate = 0 \/ c.frame_rate >= 120)
    /\ ~(c.video_bitrate = 0 \/ c.video_bitrate >= 100000)
    /\ ~(c.audio_bitrate = 0 \/ c.audio_bitrate >= 512)
    /\ ~(c.audio_channels = 0 \/ c.audio_channels >= 8)
    /\ ~(c.audio_sample_rate < 8000 \/ c.audio_sample_rate >= 192000)
    /\ validate_codec_compatibility(c)

\* RecordingConfig::validate: TRUE when it returns Ok.
validate(c) ==
    /\ ~(c.width = 0 \/ c.height = 0)
    /\ ~(c.width > 7680 \/ c.height > 4320)
    /\ ~(c.frame_rate = 0 \/ c.frame_rate > 120)
    /\ ~(c.video_bitrate = 0 \/ c.video_bitrate > 100000)
    /\ ~(c.audio_bitrate = 0 \/ c.audio_bitrate > 512)
    /\ ~(c.audio_channels = 0 \/ c.audio_channels > 8)
    /\ ~(c.audio_sample_rate < 8000 \/ c.audio_sample_rate > 192000)
    /\ validate_codec_compatibility(c)

\* The `config` arguments start_recording is called with: None and the
\* default stand for the same configuration (config.unwrap_or_default()), the
\* other one has a zero width, which validate rejects.
Configs == {DefaultConfig, [DefaultConfig EXCEPT !.width = 0]}

\* ---------------------------------------------------------- RecordingState
\* RecordingState::new.  `pid` is not a field of the struct: it names the
\* encoder process spawned by the start_recording call that built the state.
NewRecordingState(id, rtype, config) ==
    [id |-> id, recording_type |-> rtype, status |-> "Idle",
     start_time |-> None, pause_time |-> 0, paused_at |-> None,
     duration |-> 0, file_path |-> None, config |-> config, pid |-> 0]

\* A duration that subtracts the finished pauses only, not the pause in
\* progress.
calculate_duration_IgnoresCurrentPause(rs, t) ==
    IF IsSome(rs.start_time)
    THEN (t - Unwrap(rs.start_time)) - rs.pause_time
    ELSE 0

\* RecordingState::calculate_duration at clock value t (milliseconds).
calculate_duration(rs, t) ==
    IF IsSome(rs.start_time)
    THEN LET elapsed == t - Unwrap(rs.start_time)
             total_pause == IF IsSome(rs.paused_at)
                            THEN rs.pause_time + (t - Unwrap(rs.paused_at))
                            ELSE rs.pause_time
         IN  elapsed - total_pause
    ELSE 0

\* An update that recomputes the duration and clears the accumulated pause.
update_duration_ResetsPause(rs, t) ==
    [rs EXCEPT !.duration = calculate_duration(rs, t), !.pause_time = 0]

\* RecordingState::update_duration
update_duration(rs, t) == [rs EXCEPT !.duration = calculate_duration(rs, t)]

\* A start that sets the clock and leaves the status as it was.
RsStart_KeepsStatus(rs, t) ==
    [rs EXCEPT !.start_time = Some(t), !.pause_time = 0, !.paused_at = None]

\* RecordingState::start
RsStart(rs, t) ==
    [rs EXCEPT !.status = "Recording", !.start_time = Some(t),
               !.pause_time = 0, !.paused_at = None]

\* A pause that restarts the session's clock at the pause.
RsPause_RestartsClock(rs, t1, t2) ==
    IF rs.status = "Recording"
    THEN update_duration([rs EXCEPT !.status = "Paused", !.paused_at = Some(t1),
                                    !.start_time = Some(t1)], t2)
    ELSE rs

\* RecordingState::pause: paused_at is read at t1, the duration at t2 >= t1.
RsPause(rs, t1, t2) ==
    IF rs.status = "Recording"
    THEN update_duration([rs EXCEPT !.status = "Paused", !.paused_at = Some(t1)], t2)
    ELSE rs

\* A resume that measures the pause that ends from start_time instead of
\* paused_at.
RsResume_FromStart(rs, t) ==
    IF rs.status = "Paused"
    THEN [rs EXCEPT !.pause_time = rs.pause_time + (t - Unwrap(rs.start_time)),
                    !.paused_at = None, !.status = "Recording"]
    ELSE rs

\* A resume that restarts the duration from zero.
RsResume_ResetsDuration(rs, t) ==
    IF rs.status = "Paused"
    THEN [rs EXCEPT !.pause_time = rs.pause_time + (t - Unwrap(rs.paused_at)),
                    !.paused_at = None, !.status = "Recording", !.duration = 0]
    ELSE rs

\* A resume that forgets to add the pause that ends to pause_time.
RsResume_NoAccumulate(rs, t) ==
    IF rs.status = "Paused"
    THEN [rs EXCEPT !.paused_at = None, !.status = "Recording"]
    ELSE rs

\* A resume that adds the pause that ends to pause_time and leaves paused_at set.
RsResume_KeepsPausedAt(rs, t) ==
    IF rs.status = "Paused"
    THEN IF IsSome(rs.paused_at)
         THEN [rs EXCEPT !.pause_time = rs.pause_time + (t - Unwrap(rs.paused_at)),
                         !.status = "Recording"]
         ELSE [rs EXCEPT !.status = "Recording"]
    ELSE rs

\* RecordingState::resume
RsResume(rs, t) ==
    IF rs.status = "Paused"
    THEN IF IsSome(rs.paused_at)
         THEN [rs EXCEPT !.pause_time = rs.pause_time + (t - Unwrap(rs.paused_at)),
                         !.paused_at = None, !.status = "Recording"]
         ELSE [rs EXCEPT !.status = "Recording"]
    ELSE rs

\* A stop that finalizes the duration and leaves the status as it was.
RsStop_KeepStatus(rs, t) == update_duration(rs, t)

\* RecordingState::stop
RsStop(rs, t) == [update_duration(rs, t) EXCEPT !.status = "Idle"]

\* A validation that lets a pause through in any status.
validate_can_pause_Any(rs) == TRUE

\* RecordingState::validate_can_pause
validate_can_pause(rs) == rs.status = "Recording"

\* RecordingState::validate_can_resume
validate_can_resume(rs) == rs.status = "Paused"

\* -------------------------------------------------------------- call state
\* A start_recording call: pc is its position; rs, cs and path are its locals
\* recording_state, capture_session and temp_path.  from_idle records that
\* its check found no stored session, conc the numbers of the calls it
\* overlaps with that found none either.
NoCall ==
    [pc |-> "done", rs |-> None, cs |-> None, path |-> None,
     from_idle |-> FALSE, conc |-> {}]

\* The stop_recording call in flight: rs is its clone of the stored session,
\* cs the capture session it took out of the manager.
NoStop == [pc |-> "idle", rs |-> None, cs |-> None]

\* The response a returning command delivers: the command, the outcome, the
\* returned session (None for an error), the notifications the command
\* emitted, and for start_recording the call's number and its rivals.
Response(op, res, ret, emits, inv, conc) ==
    Some([op |-> op, res |-> res, ret |-> ret, emits |-> emits,
          inv |-> inv, conc |-> conc])

\* RecordingManager::emit_state_change: the event carries the stored session
\* and is emitted only when one is stored.  `locked` records whether the
\* emitting thread holds the manager lock at that moment.
emit_state_change(cur, event, locked) ==
    IF IsSome(cur)
    THEN <<[event |-> event, session |-> Unwrap(cur), locked |-> locked]>>
    ELSE <<>>

\* The operations that take the manager lock or the TempFileManager lock.
Ops ==
    {"start_recording", "stop_recording", "cleanup_temp_files", "check_disk_space",
     "save_webcam_recording", "duration_tracker", "drop_recording_resources"}

\* No operation under way: each is at block 0, holding no lock.
IdleOps == [o \in Ops |-> [blk |-> 0, held |-> 0]]

\* The names a file of the temp directory can have.
Paths == {"a", "b", "c"}

\* A directory entry: nothing by that name, a regular file or a directory; age
\* is the time since the last modification, in milliseconds; removable tells
\* whether fs::remove_file succeeds on it.
NoFile == [kind |-> "none", age |-> 0, removable |-> TRUE]

\* PreviewCaptureSession::new: no bridge, no task, a fresh flag (flag 1).
\* is_active is PreviewState.is_active, kept next to the session.
NewPreviewCaptureSession ==
    [bridge |-> None, polling_task |-> None, should_stop |-> 1, is_active |-> FALSE]

\* An empty temp directory, the preview session as constructed, an empty
\* frame queue.
InitMore ==
    /\ fs = [dir |-> "present", entries |-> [p \in Paths |-> NoFile]]
    /\ pv_session = NewPreviewCaptureSession
    /\ pv_flags = <<FALSE>>
    /\ pv_tasks = <<>>
    /\ pv_calls = <<>>
    /\ frame_queue = <<>>
    /\ pushed = 0

\* Clock time dt counted as time in status Paused when the stored session is
\* Paused while it passes.
PausedAdvance(cur, dt) ==
    IF IsSome(cur) /\ Unwrap(cur).status = "Paused" THEN dt ELSE 0

Init ==
    /\ now = 0
    /\ lock = "free"
    /\ current_recording = None
    /\ capture_session = None
    /\ duration_task = None
    /\ active_files = <<>>
    /\ procs = <<>>
    /\ tasks = <<>>
    /\ starts = <<>>
    /\ stop = NoStop
    /\ done = None
    /\ failed_stops = {}
    /\ ok_starts = {}
    /\ paused_ms = 0
    /\ stopped = {}
    /\ temp_lock = "free"
    /\ ops = IdleOps
    /\ InitMore
    /\ cfg = DefaultConfig

\* ------------------------------------------------------ encoder processes
\* A process is "running", has exited and not been waited for ("exited_ok",
\* "exited_err", "killed"), or has been waited for ("reaped").  sig is the
\* strongest request a running process has received: "none", "quit" (the q
\* command on stdin) or "int" (SIGINT).
NewProc(st) == [st |-> st, sig |-> "none"]

\* A kill that has no effect on the process.
Kill_NoEffect(ps, p) == ps

\* std::process::Child::kill (SIGKILL): a running process dies by the signal.
Kill(ps, p) ==
    IF ps[p].st = "running" THEN [ps EXCEPT ![p].st = "killed"] ELSE ps

\* The quit command or SIGINT delivered to a process.
Signal(ps, p, sig) ==
    IF ps[p].st = "running" THEN [ps EXCEPT ![p].sig = sig] ELSE ps

\* ExitStatus::success of an exited process.
Success(proc) == proc.st = "exited_ok"

\* Child::wait / a try_wait that returns a status: the process is reaped.
Reap(ps, p) == [ps EXCEPT ![p] = NewProc("reaped")]

\* ScreenCaptureSession::new
NewCaptureSession(path) == [ffmpeg_process |-> None, output_path |-> path]

\* A drop that lets go of the child without killing it, as dropping a
\* std::process::Child does.
DropCaptureSession_NoKill(ps, cs) == ps

\* Drop for ScreenCaptureSession, applied to an Option<ScreenCaptureSession>:
\* a session that still holds a child kills it and waits for it.
DropCaptureSession(ps, cs) ==
    IF IsSome(cs) /\ IsSome(Unwrap(cs).ffmpeg_process)
    THEN Reap(Kill(ps, Unwrap(Unwrap(cs).ffmpeg_process)),
              Unwrap(Unwrap(cs).ffmpeg_process))
    ELSE ps

\* -------------------------------------------------- duration-tracking task
\* A task is "waiting" at interval.tick().await, in "emit" between releasing
\* the lock and emitting its event, or "ended".
NewTask == [st |-> "waiting", snap |-> None, cancel |-> FALSE]
EndedTask == [st |-> "ended", snap |-> None, cancel |-> FALSE]

\* JoinHandle::abort: a task parked at interval.tick().await is cancelled
\* there; a task between two awaits runs on to its next await first.
Abort(ts, k) ==
    IF ts[k].st = "waiting" THEN [ts EXCEPT ![k] = EndedTask]
    ELSE IF ts[k].st = "emit" THEN [ts EXCEPT ![k].cancel = TRUE]
    ELSE ts

\* RecordingManager::stop_duration_tracking
stop_duration_tracking(ts, dt) == IF IsSome(dt) THEN Abort(ts, Unwrap(dt)) ELSE ts

\* RecordingManager::start_duration_tracking: cancel the registered task and
\* spawn a new one.
start_duration_tracking(ts, dt) == Append(stop_duration_tracking(ts, dt), NewTask)

\* ---------------------------------------------------------- TempFileManager
\* TempFileManager::create_temp_file: "<prefix>_<timestamp>.mp4" in the temp
\* directory; the prefix is the session id "rec_<timestamp>".
TempPath(prefix, t) == <<prefix, t>>

create_temp_file(af, prefix, t) == Append(af, TempPath(prefix, t))


\* ---------------------------------------------------------- start_recording
\* The check at the top of start_recording: TRUE when the call is rejected.
AlreadyInProgress(cur) == IsSome(cur) /\ Unwrap(cur).status = "Recording"

\* Calls that are inside start_recording, past the check.
InStart(n) == starts[n].pc # "done"

\* First lock block: reject when a recording is in progress; otherwise the
\* call goes on as call number Len(starts) + 1.
StartCheck ==
    /\ lock = "free"
    /\ IF AlreadyInProgress(current_recording)
       THEN /\ done' = Response("start", "already_recording", None, <<>>, 0, {})
            /\ UNCHANGED starts
       ELSE /\ Len(starts) < MaxStarts
            /\ LET rivals == IF IsSome(current_recording) THEN {}
                             ELSE {n \in DOMAIN starts : InStart(n) /\ starts[n].from_idle}
               IN starts' = Append([n \in DOMAIN starts |->
                                      IF n \in rivals
                                      THEN [starts[n] EXCEPT !.conc = @ \cup {Len(starts) + 1}]
                                      ELSE starts[n]],
                                   [NoCall EXCEPT !.pc = "start_new", !.conc = rivals,
                                                  !.from_idle = ~IsSome(current_recording)])
            /\ done' = None
    /\ UNCHANGED <<now, lock, current_recording, capture_session, duration_task,
                   active_files, procs, tasks, stop, failed_stops, ok_starts, paused_ms,
                   stopped, aux>>

\* config.unwrap_or_default(), the session id and RecordingState::new / start
\* (two clock reads, d apart).  The configuration is used as it was passed.
StartNew(n, d, config) ==
    /\ starts[n].pc = "start_new"
    /\ now + d <= MaxTime
    /\ now' = now + d
    /\ starts' = [starts EXCEPT ![n].pc = "start_temp",
                      ![n].rs = Some(RsStart(NewRecordingState(now, "Screen", config),
                                             now + d))]
    /\ done' = None
    /\ paused_ms' = paused_ms + PausedAdvance(current_recording, d)
    /\ UNCHANGED <<lock, current_recording, capture_session, duration_task,
                   active_files, procs, tasks, stop, failed_stops, ok_starts,
                   stopped, aux>>

\* Second lock block: allocate the temp output file.
StartTemp(n) ==
    /\ starts[n].pc = "start_temp"
    /\ lock = "free"
    /\ active_files' = create_temp_file(active_files, Unwrap(starts[n].rs).id, now)
    /\ starts' = [starts EXCEPT ![n].pc = "start_capture",
                      ![n].path = Some(TempPath(Unwrap(starts[n].rs).id, now))]
    /\ done' = None
    /\ UNCHANGED <<now, lock, current_recording, capture_session, duration_task,
                   procs, tasks, stop, failed_stops, ok_starts, paused_ms,
                   stopped, aux>>

\* Outcomes of ScreenCaptureSession::start.
StartOutcomes == {"no_ffmpeg", "spawn_failed", "exited_nonzero", "running"}

\* The error ScreenCaptureSession::start returns for an outcome.
StartError(outcome) ==
    IF outcome = "no_ffmpeg" THEN "dependency_missing" ELSE "capture_init_failed"

\* A capture start that, when it fails, leaves the session it built stored in
\* the manager.
StartCapture_KeepsSession(n, outcome) ==
    /\ starts[n].pc = "start_capture"
    /\ LET path == Unwrap(starts[n].path)
           pid == Len(procs) + 1
       IN IF outcome = "running"
          THEN /\ procs' = Append(procs, NewProc("running"))
               /\ starts' = [starts EXCEPT
                     ![n].pc = "start_commit",
                     ![n].cs = Some([NewCaptureSession(path) EXCEPT !.ffmpeg_process = Some(pid)]),
                     ![n].rs = Some([Unwrap(starts[n].rs) EXCEPT !.file_path = Some(path),
                                                                 !.pid = pid])]
               /\ done' = None
               /\ UNCHANGED current_recording
          ELSE /\ procs' = IF outcome = "exited_nonzero"
                           THEN Append(procs, NewProc("reaped"))
                           ELSE procs
               /\ starts' = [starts EXCEPT ![n] = NoCall]
               /\ current_recording' = starts[n].rs
               /\ done' = Response("start", StartError(outcome), None, <<>>,
                                   n, starts[n].conc)
    /\ UNCHANGED <<now, lock, capture_session, duration_task,
                   active_files, tasks, stop, failed_stops, ok_starts, paused_ms,
                   stopped, aux>>

\* ScreenCaptureSession::new and start, outside the lock.  A failure returns
\* from start_recording through `?`; the local capture session is dropped
\* holding no child (a child that had exited at once was reaped by try_wait).
StartCapture(n, outcome) ==
    /\ starts[n].pc = "start_capture"
    /\ LET path == Unwrap(starts[n].path)
           pid == Len(procs) + 1
       IN IF outcome = "running"
          THEN /\ procs' = Append(procs, NewProc("running"))
               /\ starts' = [starts EXCEPT
                     ![n].pc = "start_commit",
                     ![n].cs = Some([NewCaptureSession(path) EXCEPT !.ffmpeg_process = Some(pid)]),
                     ![n].rs = Some([Unwrap(starts[n].rs) EXCEPT !.file_path = Some(path),
                                                                 !.pid = pid])]
               /\ done' = None
          ELSE /\ procs' = IF outcome = "exited_nonzero"
                           THEN Append(procs, NewProc("reaped"))
                           ELSE procs
               /\ starts' = [starts EXCEPT ![n] = NoCall]
               /\ done' = Response("start", StartError(outcome), None, <<>>,
                                   n, starts[n].conc)
    /\ UNCHANGED <<now, lock, current_recording, capture_session, duration_task,
                   active_files, tasks, stop, failed_stops, ok_starts, paused_ms,
                   stopped, aux>>

\* Third lock block: store the capture session and the session, emit
\* recording:started, start the duration task.  Assigning capture_session
\* drops the session that was stored before.
StartCommit(n) ==
    /\ starts[n].pc = "start_commit"
    /\ lock = "free"
    /\ procs' = DropCaptureSession(procs, capture_session)
    /\ capture_session' = starts[n].cs
    /\ current_recording' = starts[n].rs
    /\ tasks' = start_duration_tracking(tasks, duration_task)
    /\ duration_task' = Some(Len(tasks) + 1)
    /\ starts' = [starts EXCEPT ![n] = NoCall]
    /\ done' = Response("start", "ok", starts[n].rs,
                        emit_state_change(current_recording', "recording:started", TRUE),
                        n, starts[n].conc)
    /\ ok_starts' = ok_starts \cup {n}
    /\ paused_ms' = 0
    /\ UNCHANGED <<now, lock, active_files, stop, failed_stops,
                   stopped, aux>>

start_recording ==
    \/ StartCheck
    \/ \E n \in DOMAIN starts, d \in 0..1, c \in Configs : StartNew(n, d, c)
    \/ \E n \in DOMAIN starts : StartTemp(n)
    \/ \E n \in DOMAIN starts, o \in StartOutcomes : StartCapture(n, o)
    \/ \E n \in DOMAIN starts : StartCommit(n)

\* ----------------------------------------------------------- stop_recording
\* The child held by the capture session that is being stopped.
StopPid == Unwrap(Unwrap(stop.cs).ffmpeg_process)

\* A stop_recording that goes on to clear the session without driving the
\* capture session's shutdown.
StopEntry_SkipShutdown(cs) == "stop_commit"

\* `if let Some(mut capture_session) = manager.capture_session.take()`: with
\* a capture session stop_recording runs ScreenCaptureSession::stop, without
\* one it goes straight on to clear the session.
StopEntry(cs) == IF IsSome(cs) THEN "stop_poll_quit" ELSE "stop_commit"

\* stop_recording takes the lock and keeps it until it returns.  With no
\* stored session it fails.  Otherwise it clones the session, takes the
\* capture session out of the manager and, if there was one, enters
\* ScreenCaptureSession::stop, whose first stage writes the quit command to
\* the child's stdin and closes it.
StopBegin ==
    /\ lock = "free"
    /\ IF ~IsSome(current_recording)
       THEN /\ done' = Response("stop", "no_active_recording", None, <<>>, 0, {})
            /\ UNCHANGED <<lock, capture_session, procs, stop>>
       ELSE /\ lock' = "stop"
            /\ capture_session' = None
            /\ done' = None
            /\ stop' = [pc |-> StopEntry(capture_session), rs |-> current_recording,
                        cs |-> capture_session]
            /\ procs' = IF StopEntry(capture_session) = "stop_poll_quit"
                        THEN Signal(procs, Unwrap(Unwrap(capture_session).ffmpeg_process),
                                    "quit")
                        ELSE procs
    /\ UNCHANGED <<now, current_recording, duration_task, active_files, tasks,
                   starts, failed_stops, ok_starts, paused_ms,
                   stopped, aux>>

\* End of the first polling window (50 polls of try_wait, 100 ms apart): a
\* child seen exited ends the escalation, a child still running at the end
\* of the window is sent SIGINT.
StopPollQuit ==
    /\ stop.pc = "stop_poll_quit"
    /\ IF procs[StopPid].st # "running"
       THEN /\ stop' = [stop EXCEPT !.pc = "stop_wait"]
            /\ UNCHANGED procs
       ELSE /\ stop' = [stop EXCEPT !.pc = "stop_poll_int"]
            /\ procs' = Signal(procs, StopPid, "int")
    /\ done' = None
    /\ UNCHANGED <<now, lock, current_recording, capture_session, duration_task,
                   active_files, tasks, starts, failed_stops, ok_starts, paused_ms,
                   stopped, aux>>

\* End of the second polling window: a child seen exited ends the
\* escalation, a child still running at poll 49 is killed (child.kill and
\* pkill -9); the remaining polls and child.wait then see it dead.
StopPollInt ==
    /\ stop.pc = "stop_poll_int"
    /\ procs' = Kill(procs, StopPid)
    /\ stop' = [stop EXCEPT !.pc = "stop_wait"]
    /\ done' = None
    /\ UNCHANGED <<now, lock, current_recording, capture_session, duration_task,
                   active_files, tasks, starts, failed_stops, ok_starts, paused_ms,
                   stopped, aux>>

\* States of the output file when stop verifies it.
FileStates == {"missing", "empty", "nonempty"}

\* A verification that accepts an output file of zero length.
StopVerified_AcceptsEmpty(proc, file) == Success(proc) /\ file # "missing"

\* The verification at the end of ScreenCaptureSession::stop: TRUE when stop
\* returns Ok(output_path), FALSE when it returns CaptureStopFailed.
StopVerified(proc, file) == Success(proc) /\ file = "nonempty"

\* child.wait and the verification of exit status and output file.  On
\* failure stop_recording returns the error through `?`: the lock is
\* released with the session still stored and the capture session gone.
StopWait(file) ==
    /\ stop.pc = "stop_wait"
    /\ procs[StopPid].st # "running"
    /\ procs' = Reap(procs, StopPid)
    /\ IF StopVerified(procs[StopPid], file)
       THEN /\ stop' = [stop EXCEPT !.pc = "stop_commit",
                           !.rs = Some([Unwrap(stop.rs) EXCEPT
                                          !.file_path = Some(Unwrap(stop.cs).output_path)])]
            /\ done' = None
            /\ UNCHANGED <<lock, failed_stops>>
       ELSE /\ stop' = NoStop
            /\ done' = Response("stop", "capture_stop_failed", None, <<>>, 0, {})
            /\ lock' = "free"
            /\ failed_stops' = failed_stops \cup {Unwrap(stop.rs).pid}
    /\ UNCHANGED <<now, current_recording, capture_session, duration_task,
                   active_files, tasks, starts, ok_starts, paused_ms,
                   stopped, aux>>

\* RecordingState::stop on the clone, stop_duration_tracking,
\* set_current_recording(None), emit_state_change, release, return the clone.
StopCommit ==
    /\ stop.pc = "stop_commit"
    /\ tasks' = stop_duration_tracking(tasks, duration_task)
    /\ duration_task' = None
    /\ current_recording' = None
    /\ lock' = "free"
    /\ stop' = NoStop
    /\ done' = Response("stop", "ok", Some(RsStop(Unwrap(stop.rs), now)),
                        emit_state_change(current_recording', "recording:stopped", TRUE),
                        0, {})
    /\ paused_ms' = 0
    /\ stopped' = stopped \cup {Unwrap(stop.rs).pid}
    /\ UNCHANGED <<now, capture_session, active_files, procs, starts,
                   failed_stops, ok_starts,
                   aux>>

stop_recording ==
    \/ StopBegin
    \/ StopPollQuit
    \/ StopPollInt
    \/ \E f \in FileStates : StopWait(f)
    \/ StopCommit

\* ------------------------------------------- pause_recording / resume_recording
\* One lock block: clone the stored session, validate, pause the clone, store
\* it, emit recording:paused.
pause_recording(d) ==
    /\ lock = "free"
    /\ now + d <= MaxTime
    /\ IF ~IsSome(current_recording)
       THEN /\ done' = Response("pause", "no_active_recording", None, <<>>, 0, {})
            /\ UNCHANGED <<now, current_recording, paused_ms>>
       ELSE IF ~validate_can_pause(Unwrap(current_recording))
       THEN /\ done' = Response("pause", "invalid_transition", None, <<>>, 0, {})
            /\ UNCHANGED <<now, current_recording, paused_ms>>
       ELSE /\ now' = now + d
            /\ paused_ms' = paused_ms + d
            /\ current_recording' = Some(RsPause(Unwrap(current_recording), now, now + d))
            /\ done' = Response("pause", "ok", current_recording',
                          emit_state_change(current_recording', "recording:paused", TRUE),
                          0, {})
    /\ UNCHANGED <<lock, capture_session, duration_task, active_files, procs, tasks,
                   starts, stop, failed_stops, ok_starts,
                   stopped, aux>>

\* One lock block: clone the stored session, validate, resume the clone,
\* store it, emit recording:resumed.
resume_recording ==
    /\ lock = "free"
    /\ IF ~IsSome(current_recording)
       THEN /\ done' = Response("resume", "no_active_recording", None, <<>>, 0, {})
            /\ UNCHANGED current_recording
       ELSE IF ~validate_can_resume(Unwrap(current_recording))
       THEN /\ done' = Response("resume", "invalid_transition", None, <<>>, 0, {})
            /\ UNCHANGED current_recording
       ELSE /\ current_recording' = Some(RsResume(Unwrap(current_recording), now))
            /\ done' = Response("resume", "ok", current_recording',
                          emit_state_change(current_recording', "recording:resumed", TRUE),
                          0, {})
    /\ UNCHANGED <<now, lock, capture_session, duration_task, active_files, procs, tasks,
                   starts, stop, failed_stops, ok_starts, paused_ms,
                   stopped, aux>>

\* ---------------------------------------------------- duration-tracking task
\* One iteration of the task's loop up to the release of the lock: with no
\* stored session the task ends; a Recording session gets its duration
\* updated and is cloned for the event; a Paused one is left alone.
TrackerTick(k) ==
    /\ tasks[k].st = "waiting"
    /\ lock = "free"
    /\ IF ~IsSome(current_recording)
       THEN /\ tasks' = [tasks EXCEPT ![k] = EndedTask]
            /\ UNCHANGED current_recording
       ELSE IF Unwrap(current_recording).status = "Recording"
       THEN /\ current_recording' = Some(update_duration(Unwrap(current_recording), now))
            /\ tasks' = [tasks EXCEPT ![k].st = "emit", ![k].snap = current_recording']
       ELSE UNCHANGED <<tasks, current_recording>>
    /\ done' = None
    /\ UNCHANGED <<now, lock, capture_session, duration_task, active_files, procs,
                   starts, stop, failed_stops, ok_starts, paused_ms,
                   stopped, aux>>

\* The rest of the iteration: emit recording:duration-update with the clone,
\* then reach interval.tick().await, where a pending abort takes effect.
TrackerEmit(k) ==
    /\ tasks[k].st = "emit"
    /\ tasks' = [tasks EXCEPT ![k] = IF tasks[k].cancel THEN EndedTask ELSE NewTask]
    /\ done' = None
    /\ UNCHANGED <<now, lock, current_recording, capture_session, duration_task,
                   active_files, procs, starts, stop, failed_stops, ok_starts, paused_ms,
                   stopped, aux>>

\* ------------------------------------------------------------- environment
\* The wall clock advances.
Tick ==
    /\ now < MaxTime
    /\ now' = now + 1
    /\ done' = None
    /\ paused_ms' = paused_ms + PausedAdvance(current_recording, 1)
    /\ UNCHANGED <<lock, current_recording, capture_session, duration_task,
                   active_files, procs, tasks, starts, stop, failed_stops, ok_starts,
                   stopped, aux>>

\* A running encoder exits on its own account (finishing after a quit
\* command or an interrupt, or failing), with status zero or non-zero.
ProcExit(p, ok) ==
    /\ procs[p].st = "running"
    /\ procs' = [procs EXCEPT ![p].st = IF ok THEN "exited_ok" ELSE "exited_err"]
    /\ done' = None
    /\ UNCHANGED <<now, lock, current_recording, capture_session, duration_task,
                   active_files, tasks, starts, stop, failed_stops, ok_starts, paused_ms,
                   stopped, aux>>

Next ==
    \/ start_recording
    \/ stop_recording
    \/ \E d \in 0..1 : pause_recording(d)
    \/ resume_recording
    \/ \E k \in DOMAIN tasks : TrackerTick(k)
    \/ \E k \in DOMAIN tasks : TrackerEmit(k)
    \/ Tick
    \/ \E p \in DOMAIN procs, ok \in BOOLEAN : ProcExit(p, ok)

Spec == Init /\ [][Next]_vars

\* ------------------------------- ScreenCaptureSession::stop, poll by poll
\* Spec follows stop_recording through the shutdown window by window.  The
\* specification below follows one capture session through
\* ScreenCaptureSession::stop poll by poll, with the loop bounds of the code.
\* It uses procs (the child), capture_session (the session stop is called
\* on), stop (the call in flight) and done (what the call returned).
\* try_wait and wait return Err only for a child that has been waited for
\* already, which nothing but this handle does: their Err arms are left out.

\* `for _ in 0..50`: polls of the window that follows the quit command.
QuitPolls == 50
\* `for i in 0..100`: polls of the window that follows SIGINT.
IntPolls == 100
\* `Ok(None) if i == 49`: the poll at which a child still running is killed.
KillPoll == 49

\* No call of stop in flight.  A call in flight has its position pc, the
\* child it took out of the session, the loop index i and the shutdown stages
\* it has entered, each with the number of polls of the previous window,
\* all of which saw the child running.
ScIdle == [pc |-> "idle", child |-> 0, i |-> 0, sent |-> <<>>]

\* What a call of stop returned: the result, the path (None for an error),
\* the exit status child.wait reported, the state the output file was found
\* in and the stages the call had entered.
ScResponse(res, ret, status, file, sent) ==
    Some([op |-> "sc_stop", res |-> res, ret |-> ret, status |-> status,
          file |-> file, sent |-> sent])

\* A `for` loop over 0..n has run out at index i.
LoopOver(i, n) == i = n

\* A capture session holding a running child, as start leaves it.
InitStop ==
    /\ now = 0
    /\ lock = "free"
    /\ current_recording = None
    /\ capture_session = Some([NewCaptureSession(TempPath(0, 0)) EXCEPT
                                  !.ffmpeg_process = Some(1)])
    /\ duration_task = None
    /\ active_files = <<TempPath(0, 0)>>
    /\ procs = <<NewProc("running")>>
    /\ tasks = <<>>
    /\ starts = <<>>
    /\ stop = ScIdle
    /\ done = None
    /\ failed_stops = {}
    /\ ok_starts = {}
    /\ paused_ms = 0
    /\ stopped = {}
    /\ temp_lock = "free"
    /\ ops = IdleOps
    /\ InitMore
    /\ cfg = DefaultConfig

\* What stop leaves alone.
ScRest ==
    <<now, lock, current_recording, duration_task, active_files, tasks, starts,
      failed_stops, ok_starts, paused_ms, stopped, aux>>

\* Number of encoder processes one capture session spawns, one start after
\* another.
MaxSpawns == 2

\* What a call of start returned, and what the spawn had come to.
ScStartResponse(res, outcome) ==
    Some([op |-> "sc_start", res |-> res, outcome |-> outcome])

\* A start that stores the child before it looks at its exit status.
ChildAfterStart_KeepsExited(outcome, pid) ==
    IF outcome \in {"running", "exited_nonzero"} THEN Some(pid) ELSE None

\* The child ScreenCaptureSession::start leaves in self.ffmpeg_process: the
\* spawned one, unless start returned an error before storing it.
ChildAfterStart(outcome, pid) ==
    IF outcome = "running" THEN Some(pid) ELSE None

\* ScreenCaptureSession::start: AlreadyRecording with a child held;
\* otherwise find ffmpeg, spawn it, and look at it once with try_wait: a
\* child that has exited with a non-zero status (try_wait has reaped it) is
\* an error, any other child is stored.
ScStart(outcome) ==
    /\ stop.pc = "idle"
    /\ Len(procs) < MaxSpawns
    /\ IF IsSome(Unwrap(capture_session).ffmpeg_process)
       THEN /\ done' = ScStartResponse("already_recording", "none")
            /\ UNCHANGED <<procs, capture_session>>
       ELSE /\ procs' = IF outcome = "running" THEN Append(procs, NewProc("running"))
                        ELSE IF outcome = "exited_nonzero"
                             THEN Append(procs, NewProc("reaped"))
                             ELSE procs
            /\ capture_session' =
                  Some([Unwrap(capture_session) EXCEPT
                          !.ffmpeg_process = ChildAfterStart(outcome, Len(procs) + 1)])
            /\ done' = ScStartResponse(IF outcome = "running" THEN "ok"
                                       ELSE StartError(outcome), outcome)
    /\ UNCHANGED <<stop, ScRest>>

\* `if let Some(mut child) = self.ffmpeg_process.take()`: without a child
\* stop returns NotRecording.
ScStopTake ==
    /\ stop.pc = "idle"
    /\ IF IsSome(Unwrap(capture_session).ffmpeg_process)
       THEN /\ stop' = [ScIdle EXCEPT !.pc = "sc_quit",
                           !.child = Unwrap(Unwrap(capture_session).ffmpeg_process)]
            /\ capture_session' = Some([Unwrap(capture_session) EXCEPT
                                           !.ffmpeg_process = None])
            /\ done' = None
       ELSE /\ done' = ScResponse("not_recording", None, "none", "none", <<>>)
            /\ UNCHANGED <<stop, capture_session>>
    /\ UNCHANGED <<procs, ScRest>>

\* Stage 1: write the quit command to the child's stdin, close it, sleep.
ScQuit ==
    /\ stop.pc = "sc_quit"
    /\ procs' = Signal(procs, stop.child, "quit")
    /\ stop' = [stop EXCEPT !.pc = "sc_poll_quit", !.i = 0,
                            !.sent = Append(@, [stage |-> "quit", polls |-> 0])]
    /\ done' = None
    /\ UNCHANGED <<capture_session, ScRest>>

\* One iteration of the first loop: try_wait, then break or sleep.
ScPollQuit ==
    /\ stop.pc = "sc_poll_quit"
    /\ ~LoopOver(stop.i, QuitPolls)
    /\ stop' = IF procs[stop.child].st # "running"
               THEN [stop EXCEPT !.pc = "sc_wait"]
               ELSE [stop EXCEPT !.i = @ + 1]
    /\ done' = None
    /\ UNCHANGED <<procs, capture_session, ScRest>>

\* Stage 2, `if !exited`: the first loop ran out, send SIGINT.
ScSigint ==
    /\ stop.pc = "sc_poll_quit"
    /\ LoopOver(stop.i, QuitPolls)
    /\ procs' = Signal(procs, stop.child, "int")
    /\ stop' = [stop EXCEPT !.pc = "sc_poll_int", !.i = 0,
                            !.sent = Append(@, [stage |-> "int", polls |-> stop.i])]
    /\ done' = None
    /\ UNCHANGED <<capture_session, ScRest>>

\* One iteration of the second loop: sleep, try_wait, then break, or (stage
\* 3) kill the child at poll 49, or go on.  SIGKILL cannot be ignored: the
\* child is dead from then on, and the next poll sees it.
ScPollInt ==
    /\ stop.pc = "sc_poll_int"
    /\ IF procs[stop.child].st # "running"
       THEN /\ stop' = [stop EXCEPT !.pc = "sc_wait"]
            /\ UNCHANGED procs
       ELSE /\ procs' = IF stop.i = KillPoll THEN Kill(procs, stop.child) ELSE procs
            /\ stop' = [stop EXCEPT
                  !.i = @ + 1,
                  !.pc = IF LoopOver(stop.i + 1, IntPolls) THEN "sc_wait" ELSE @,
                  !.sent = IF stop.i = KillPoll
                           THEN Append(@, [stage |-> "kill", polls |-> stop.i + 1])
                           ELSE @]
    /\ done' = None
    /\ UNCHANGED <<capture_session, ScRest>>

\* child.wait (which blocks until the child has exited), then the
\* verification of exit status and output file, and the return.
ScWait(file) ==
    /\ stop.pc = "sc_wait"
    /\ procs[stop.child].st # "running"
    /\ procs' = Reap(procs, stop.child)
    /\ stop' = ScIdle
    /\ done' = IF StopVerified(procs[stop.child], file)
               THEN ScResponse("ok", Some(Unwrap(capture_session).output_path),
                               procs[stop.child].st, file, stop.sent)
               ELSE ScResponse("capture_stop_failed", None,
                               procs[stop.child].st, file, stop.sent)
    /\ UNCHANGED <<capture_session, ScRest>>

\* The steps of a call of stop that is under way.
ScStep ==
    \/ ScQuit
    \/ ScPollQuit
    \/ ScSigint
    \/ ScPollInt
    \/ \E f \in FileStates : ScWait(f)

NextStop ==
    \/ \E o \in StartOutcomes : ScStart(o)
    \/ ScStopTake
    \/ ScStep
    \/ \E p \in DOMAIN procs, ok \in BOOLEAN : ProcExit(p, ok)

SpecStop == InitStop /\ [][NextStop]_vars

\* The thread that runs stop keeps running.
SpecStopFair == SpecStop /\ WF_vars(ScStep)

\* ------------------------------------------------- the two locks, by operation
\* What each operation locks: a sequence of blocks, each the sequence of locks
\* the block takes, in the order it takes them; a block's guards are dropped
\* together where the block ends.  "session" is the Mutex around the
\* RecordingManager, "temp" the Mutex around its TempFileManager.
LockPlan_TempFirst(op) ==
    CASE op = "start_recording" -> << <<"session">>, <<"session", "temp">>, <<"session">> >>
      [] op = "stop_recording" -> << <<"session">> >>
      [] op = "cleanup_temp_files" -> << <<"temp", "session">> >>
      [] op = "check_disk_space" -> << <<"session", "temp">> >>
      [] op = "save_webcam_recording" -> << <<"session", "temp">> >>
      [] op = "duration_tracker" -> << <<"session">> >>
      [] op = "drop_recording_resources" -> << <<"temp">> >>

LockPlan(op) ==
    CASE op = "start_recording" -> << <<"session">>, <<"session", "temp">>, <<"session">> >>
      [] op = "stop_recording" -> << <<"session">> >>
      [] op = "cleanup_temp_files" -> << <<"session", "temp">> >>
      [] op = "check_disk_space" -> << <<"session", "temp">> >>
      [] op = "save_webcam_recording" -> << <<"session", "temp">> >>
      [] op = "duration_tracker" -> << <<"session">> >>
      [] op = "drop_recording_resources" -> << <<"temp">> >>

\* The block operation o is in (it is in one: ops[o].blk > 0).
OpBlock(o) == LockPlan(o)[ops[o].blk]

\* The holder of lock l ("free" when nobody holds it).
Holder(l) == IF l = "session" THEN lock ELSE temp_lock

\* Operation o is blocked in, or about to call, lock() on l.
Wants(o, l) ==
    /\ ops[o].blk > 0
    /\ ops[o].held < Len(OpBlock(o))
    /\ OpBlock(o)[ops[o].held + 1] = l

OpRest ==
    <<now, current_recording, capture_session, duration_task, active_files, procs,
      tasks, starts, stop, done, failed_stops, ok_starts, paused_ms, stopped, cfg, more>>

\* The operation is called (a command is invoked, the tracker's interval
\* ticks, a RecordingResources value is dropped) and reaches its first block.
OpBegin(o) ==
    /\ ops[o].blk = 0
    /\ ops' = [ops EXCEPT ![o] = [blk |-> 1, held |-> 0]]
    /\ UNCHANGED <<lock, temp_lock, OpRest>>

\* lock() on the next lock of the block returns: the lock was free.
OpAcquire(o) ==
    /\ \E l \in {"session", "temp"} :
          /\ Wants(o, l)
          /\ Holder(l) = "free"
          /\ lock' = IF l = "session" THEN o ELSE lock
          /\ temp_lock' = IF l = "temp" THEN o ELSE temp_lock
    /\ ops' = [ops EXCEPT ![o].held = @ + 1]
    /\ UNCHANGED OpRest

\* The block ends: its guards are dropped, and the operation goes on to its
\* next block or returns.
OpRelease(o) ==
    /\ ops[o].blk > 0
    /\ ops[o].held = Len(OpBlock(o))
    /\ lock' = IF lock = o THEN "free" ELSE lock
    /\ temp_lock' = IF temp_lock = o THEN "free" ELSE temp_lock
    /\ ops' = [ops EXCEPT ![o] = [blk |-> IF ops[o].blk < Len(LockPlan(o))
                                          THEN ops[o].blk + 1 ELSE 0,
                                  held |-> 0]]
    /\ UNCHANGED OpRest

NextLocks ==
    \E o \in Ops : OpBegin(o) \/ OpAcquire(o) \/ OpRelease(o)

SpecLocks == Init /\ [][NextLocks]_vars

\* ------------------------------------- validate_config / get_supported_codecs
\* The get_supported_codecs command: the codecs listed for a container, None
\* when it returns Err.
get_supported_codecs(format) ==
    CASE format = "mp4" ->
            Some([video_codecs |-> {"h264", "h265", "hevc"},
                  audio_codecs |-> {"aac", "mp3"}])
      [] format = "webm" ->
            Some([video_codecs |-> {"vp8", "vp9", "av1"},
                  audio_codecs |-> {"vorbis", "opus"}])
      [] format = "mkv" ->
            Some([video_codecs |-> {"h264", "h265", "vp8", "vp9"},
                  audio_codecs |-> {"aac", "opus", "vorbis", "mp3"}])
      [] format = "mov" ->
            Some([video_codecs |-> {"h264", "h265", "hevc", "prores"},
                  audio_codecs |-> {"aac"}])
      [] OTHER -> None

\* The configurations the commands are called with: every numeric field at
\* the two ends of its range and one step outside each end, with the default
\* codecs; and every container with every video and audio codec (and some
\* names no container knows), with the default numbers.
ConfigInputs ==
    [width : {0, 1, 7680, 7681}, height : {0, 1, 4320, 4321},
     frame_rate : {0, 1, 120, 121}, video_bitrate : {0, 1, 100000, 100001},
     audio_sample_rate : {7999, 8000, 192000, 192001},
     audio_channels : {0, 1, 8, 9}, audio_bitrate : {0, 1, 512, 513},
     video_codec : {DefaultConfig.video_codec},
     audio_codec : {DefaultConfig.audio_codec},
     output_format : {DefaultConfig.output_format}]
    \cup
    [width : {DefaultConfig.width}, height : {DefaultConfig.height},
     frame_rate : {DefaultConfig.frame_rate},
     video_bitrate : {DefaultConfig.video_bitrate},
     audio_sample_rate : {DefaultConfig.audio_sample_rate},
     audio_channels : {DefaultConfig.audio_channels},
     audio_bitrate : {DefaultConfig.audio_bitrate},
     video_codec : {"h264", "h265", "hevc", "vp8", "vp9", "av1", "prores", "mpeg2"},
     audio_codec : {"aac", "mp3", "vorbis", "opus", "flac"},
     output_format : {"mp4", "webm", "mkv", "mov", "avi"}]

InitConfig ==
    /\ now = 0
    /\ lock = "free"
    /\ current_recording = None
    /\ capture_session = None
    /\ duration_task = None
    /\ active_files = <<>>
    /\ procs = <<>>
    /\ tasks = <<>>
    /\ starts = <<>>
    /\ stop = NoStop
    /\ done = None
    /\ failed_stops = {}
    /\ ok_starts = {}
    /\ paused_ms = 0
    /\ stopped = {}
    /\ temp_lock = "free"
    /\ ops = IdleOps
    /\ InitMore
    /\ cfg \in ConfigInputs

ConfigRest ==
    <<now, lock, current_recording, capture_session, duration_task, active_files,
      procs, tasks, starts, stop, failed_stops, ok_starts, paused_ms, stopped,
      temp_lock, ops, cfg, more>>

\* The validate_config command: config.validate()?; Ok(true).
ValidateConfig ==
    /\ done' = Some([op |-> "validate_config",
                     res |-> IF validate(cfg) THEN "ok" ELSE "err"])
    /\ UNCHANGED ConfigRest

\* The get_supported_codecs command, called with the configuration's container.
GetSupportedCodecs ==
    /\ done' = Some([op |-> "get_supported_codecs",
                     res |-> get_supported_codecs(cfg.output_format)])
    /\ UNCHANGED ConfigRest

NextConfig == ValidateConfig \/ GetSupportedCodecs

SpecConfig == InitConfig /\ [][NextConfig]_vars

\* -------------------------------------------- TempFileManager: the cleanups
\* Path::exists
Exists(f, p) == f.entries[p].kind # "none"

\* fs::remove_file succeeds on a regular file that can be removed; it fails on
\* a directory.
RemoveOk(f, p) == f.entries[p].kind = "file" /\ f.entries[p].removable

\* The file system after a successful fs::remove_file.
Removed(f, p) == [f EXCEPT !.entries[p] = NoFile]

\* The loop of TempFileManager::cleanup_all from the i-th tracked path on:
\* the file system and the error list it ends with.
RECURSIVE CleanupFrom(_, _, _, _)
CleanupFrom(files, i, f, errors) ==
    IF i > Len(files) THEN [fs |-> f, errors |-> errors]
    ELSE IF Exists(f, files[i])
    THEN IF RemoveOk(f, files[i])
         THEN CleanupFrom(files, i + 1, Removed(f, files[i]), errors)
         ELSE CleanupFrom(files, i + 1, f, Append(errors, files[i]))
    ELSE CleanupFrom(files, i + 1, f, errors)

\* A cleanup_all that gives up at the first removal that fails.
cleanup_all_StopsAtFirstError(files, f) ==
    LET bad == {i \in DOMAIN files : Exists(f, files[i]) /\ ~RemoveOk(f, files[i])}
        last == IF bad = {} THEN Len(files)
                ELSE CHOOSE i \in bad : \A j \in bad : i <= j
    IN CleanupFrom(SubSeq(files, 1, last), 1, f, <<>>)

\* TempFileManager::cleanup_all: the file system it leaves and the paths
\* whose removal failed, in order.
cleanup_all(files, f) == CleanupFrom(files, 1, f, <<>>)

\* Duration::as_secs of an age kept in milliseconds.
as_secs(ms) == ms \div 1000

\* The files a sweep of cleanup_orphaned_files takes for orphans.
Orphaned(f) ==
    {p \in Paths : f.entries[p].kind = "file" /\ as_secs(f.entries[p].age) > 3600}

\* A sweep that returns at the first orphan it cannot remove (entries are
\* visited in the order a, b, c).
cleanup_orphaned_files_AbortsOnFailure(f) ==
    LET order == <<"a", "b", "c">>
        bad == {i \in 1..3 : order[i] \in Orphaned(f) /\ ~RemoveOk(f, order[i])}
        last == IF bad = {} THEN 3 ELSE CHOOSE i \in bad : \A j \in bad : i <= j
        gone == {order[i] : i \in 1..last} \cap {p \in Orphaned(f) : RemoveOk(f, p)}
    IN IF f.dir = "missing" THEN [fs |-> f, res |-> "ok", cleaned |-> 0]
       ELSE IF f.dir = "unreadable" THEN [fs |-> f, res |-> "err", cleaned |-> 0]
       ELSE [fs |-> [f EXCEPT !.entries = [p \in Paths |->
                                             IF p \in gone THEN NoFile ELSE @[p]]],
             res |-> "ok", cleaned |-> Cardinality(gone)]

\* TempFileManager::cleanup_orphaned_files: Ok(0) without the directory, Err
\* when it cannot be read; otherwise every regular file older than 3600 whole
\* seconds is removed, if it can be, and counted.
cleanup_orphaned_files(f) ==
    LET gone == {p \in Orphaned(f) : RemoveOk(f, p)}
    IN IF f.dir = "missing" THEN [fs |-> f, res |-> "ok", cleaned |-> 0]
       ELSE IF f.dir = "unreadable" THEN [fs |-> f, res |-> "err", cleaned |-> 0]
       ELSE [fs |-> [f EXCEPT !.entries = [p \in Paths |->
                                             IF p \in gone THEN NoFile ELSE @[p]]],
             res |-> "ok", cleaned |-> Cardinality(gone)]

\* The ages of the files of the directory: none, one hour, just under one
\* hour and a second, one hour and a second.
Ages == {0, 3600000, 3600999, 3601000}

\* What the directory can hold under one name.
Entries ==
    {NoFile, [kind |-> "dir", age |-> 0, removable |-> FALSE]}
    \cup [kind : {"file"}, age : Ages, removable : BOOLEAN]

\* The lists of tracked paths: up to two paths, or all three.
TrackedInputs ==
    {<<>>} \cup {<<p>> : p \in Paths} \cup {<<p, q>> : p, q \in Paths}
    \cup {<<"b", "a", "c">>}

InitTemp ==
    /\ now = 0
    /\ lock = "free"
    /\ current_recording = None
    /\ capture_session = None
    /\ duration_task = None
    /\ active_files \in TrackedInputs
    /\ procs = <<>>
    /\ tasks = <<>>
    /\ starts = <<>>
    /\ stop = NoStop
    /\ done = None
    /\ failed_stops = {}
    /\ ok_starts = {}
    /\ paused_ms = 0
    /\ stopped = {}
    /\ temp_lock = "free"
    /\ ops = IdleOps
    /\ cfg = DefaultConfig
    /\ fs \in [dir : {"present"}, entries : [Paths -> Entries]]
              \cup [dir : {"missing", "unreadable"}, entries : {[p \in Paths |-> NoFile]}]
    /\ pv_session = NewPreviewCaptureSession
    /\ pv_flags = <<FALSE>>
    /\ pv_tasks = <<>>
    /\ pv_calls = <<>>
    /\ frame_queue = <<>>
    /\ pushed = 0

TempRest ==
    <<now, lock, current_recording, capture_session, duration_task, procs, tasks,
      starts, stop, failed_stops, ok_starts, paused_ms, stopped, temp_lock, ops, cfg,
      pv_session, pv_flags, pv_tasks, pv_calls, frame_queue, pushed>>

\* The cleanup_temp_files command: cleanup_all under both locks; the list of
\* tracked paths is cleared whatever happened.  The response records, next to
\* the error, the list the call worked on and the paths it removed (neither
\* is returned by the code).
CleanupTempFiles ==
    /\ LET r == cleanup_all(active_files, fs)
       IN /\ fs' = r.fs
          /\ done' = Some([op |-> "cleanup_temp_files",
                           res |-> IF r.errors = <<>> THEN "ok" ELSE "err",
                           errors |-> r.errors,
                           tracked |-> active_files,
                           removed |-> {p \in Paths : Exists(fs, p) /\ ~Exists(r.fs, p)}])
    /\ active_files' = <<>>
    /\ UNCHANGED TempRest

\* The cleanup_orphaned_files command.
CleanupOrphanedFiles ==
    /\ LET r == cleanup_orphaned_files(fs)
       IN /\ fs' = r.fs
          /\ done' = Some([op |-> "cleanup_orphaned_files", res |-> r.res,
                           cleaned |-> r.cleaned])
    /\ UNCHANGED <<active_files, TempRest>>

NextTemp == CleanupTempFiles \/ CleanupOrphanedFiles

SpecTemp == InitTemp /\ [][NextTemp]_vars

\* ------------------------------------------------ preview capture session
\* A frame-polling task is at the head of its loop ("check"), parked at
\* tokio::time::sleep(5 ms).await ("sleeping") or has ended; flag is the
\* should_stop flag it was spawned with.
NewPoller(flag) == [st |-> "check", flag |-> flag, cancel |-> FALSE]

\* JoinHandle::abort on a poller: it ends at its await; a poller that is not
\* parked there runs on to its next await.
AbortPoller(ts, k) ==
    IF ts[k].st = "sleeping" THEN [ts EXCEPT ![k].st = "ended"]
    ELSE IF ts[k].st = "check" THEN [ts EXCEPT ![k].cancel = TRUE]
    ELSE ts

\* PreviewCaptureSession::stop, the tasks: the registered task is aborted.
PvSessionStopTasks(ts, session) ==
    IF IsSome(session.polling_task) THEN AbortPoller(ts, Unwrap(session.polling_task))
    ELSE ts

\* PreviewCaptureSession::stop, the flags: the session's flag is set.
PvSessionStopFlags(fl, session) == [fl EXCEPT ![session.should_stop] = TRUE]

\* PreviewCaptureSession::stop, the session: the bridge is stopped and
\* dropped, the task handle taken.
PvSessionStop(session) == [session EXCEPT !.bridge = None, !.polling_task = None]

PvRest ==
    <<now, lock, current_recording, capture_session, duration_task, active_files,
      procs, tasks, starts, stop, failed_stops, ok_starts, paused_ms, stopped,
      temp_lock, ops, cfg, fs, frame_queue, pushed>>

\* start_preview_for_source, first lock block: stop any existing session.
PvStartStop ==
    /\ Len(pv_calls) < MaxPreviewStarts
    /\ pv_flags' = PvSessionStopFlags(pv_flags, pv_session)
    /\ pv_tasks' = PvSessionStopTasks(pv_tasks, pv_session)
    /\ pv_session' = PvSessionStop(pv_session)
    /\ pv_calls' = Append(pv_calls, [pc |-> "capture", flag |-> 0, task |-> 0])
    /\ done' = None
    /\ UNCHANGED PvRest

\* ScreenCaptureBridge::new, the configuration and start_capture, then
\* is_active = true and the preview-started event: any of them can fail, and
\* the call returns the error with its bridge dropped.
PvStartCapture(c, ok) ==
    /\ pv_calls[c].pc = "capture"
    /\ IF ok
       THEN /\ pv_calls' = [pv_calls EXCEPT ![c].pc = "store_bridge"]
            /\ pv_session' = [pv_session EXCEPT !.is_active = TRUE]
            /\ done' = None
       ELSE /\ pv_calls' = [pv_calls EXCEPT ![c].pc = "done"]
            /\ done' = Some([op |-> "start_preview_for_source", res |-> "err", call |-> c])
            /\ UNCHANGED pv_session
    /\ UNCHANGED <<pv_flags, pv_tasks, PvRest>>

\* A new flag, and the second lock block: the bridge and the flag are stored
\* in the session.
PvStoreBridge(c) ==
    /\ pv_calls[c].pc = "store_bridge"
    /\ pv_flags' = Append(pv_flags, FALSE)
    /\ pv_session' = [pv_session EXCEPT !.bridge = Some(c),
                                        !.should_stop = Len(pv_flags) + 1]
    /\ pv_calls' = [pv_calls EXCEPT ![c].pc = "spawn", ![c].flag = Len(pv_flags) + 1]
    /\ done' = None
    /\ UNCHANGED <<pv_tasks, PvRest>>

\* tokio::spawn of the polling task, which holds a clone of the call's flag.
PvSpawn(c) ==
    /\ pv_calls[c].pc = "spawn"
    /\ pv_tasks' = Append(pv_tasks, NewPoller(pv_calls[c].flag))
    /\ pv_calls' = [pv_calls EXCEPT ![c].pc = "store_task", ![c].task = Len(pv_tasks) + 1]
    /\ done' = None
    /\ UNCHANGED <<pv_session, pv_flags, PvRest>>

\* Third lock block: the task's handle is stored in the session (a handle that
\* was stored there is dropped, which does not abort its task), and the call
\* returns Ok.
PvStoreTask(c) ==
    /\ pv_calls[c].pc = "store_task"
    /\ pv_session' = [pv_session EXCEPT !.polling_task = Some(pv_calls[c].task)]
    /\ pv_calls' = [pv_calls EXCEPT ![c].pc = "done"]
    /\ done' = Some([op |-> "start_preview_for_source", res |-> "ok", call |-> c])
    /\ UNCHANGED <<pv_flags, pv_tasks, PvRest>>

\* stop_preview_for_source: PreviewCaptureSession::stop under the lock, then
\* the is_active check, which decides what the command returns.
PvStop ==
    /\ pv_flags' = PvSessionStopFlags(pv_flags, pv_session)
    /\ pv_tasks' = PvSessionStopTasks(pv_tasks, pv_session)
    /\ pv_session' = [PvSessionStop(pv_session) EXCEPT !.is_active = FALSE]
    /\ done' = Some([op |-> "stop_preview_for_source",
                     res |-> IF pv_session.is_active THEN "ok" ELSE "not_active",
                     call |-> 0])
    /\ UNCHANGED <<pv_calls, PvRest>>

\* One iteration of the polling loop: with its flag set the task ends; a frame
\* taken from the stored bridge is processed and the loop goes round with no
\* await; with no frame (or no bridge) the task reaches its sleep, where a
\* pending abort ends it.
PvPoll(k, frame) ==
    /\ pv_tasks[k].st = "check"
    /\ frame => IsSome(pv_session.bridge)
    /\ pv_tasks' = [pv_tasks EXCEPT ![k].st =
                        IF pv_flags[pv_tasks[k].flag] THEN "ended"
                        ELSE IF frame THEN "check"
                        ELSE IF pv_tasks[k].cancel THEN "ended"
                        ELSE "sleeping"]
    /\ done' = None
    /\ UNCHANGED <<pv_session, pv_flags, pv_calls, PvRest>>

\* The 5 ms sleep is over.
PvWake(k) ==
    /\ pv_tasks[k].st = "sleeping"
    /\ pv_tasks' = [pv_tasks EXCEPT ![k].st = "check"]
    /\ done' = None
    /\ UNCHANGED <<pv_session, pv_flags, pv_calls, PvRest>>

NextPreview ==
    \/ PvStartStop
    \/ \E c \in DOMAIN pv_calls, ok \in BOOLEAN : PvStartCapture(c, ok)
    \/ \E c \in DOMAIN pv_calls : PvStoreBridge(c)
    \/ \E c \in DOMAIN pv_calls : PvSpawn(c)
    \/ \E c \in DOMAIN pv_calls : PvStoreTask(c)
    \/ PvStop
    \/ \E k \in DOMAIN pv_tasks, frame \in BOOLEAN : PvPoll(k, frame)
    \/ \E k \in DOMAIN pv_tasks : PvWake(k)

SpecPreview == Init /\ [][NextPreview]_vars

\* ------------------------------------------------ the inbound frame queue
\* const MAX_QUEUE_SIZE in screen_capture_push_frame
MAX_QUEUE_SIZE == 120

\* A push that drops the oldest frame only once the queue is over the limit.
push_frame_LateDrop(q, frame) ==
    IF Len(q) > MAX_QUEUE_SIZE THEN Append(Tail(q), frame) ELSE Append(q, frame)

\* screen_capture_push_frame, the queue: a queue at the limit loses its front
\* frame (pop_front), then the frame is appended (push_back).
push_frame(q, frame) ==
    IF Len(q) >= MAX_QUEUE_SIZE THEN Append(Tail(q), frame) ELSE Append(q, frame)

QueueRest ==
    <<now, lock, current_recording, capture_session, duration_task, active_files,
      procs, tasks, starts, stop, failed_stops, ok_starts, paused_ms, stopped,
      temp_lock, ops, cfg, fs, pv_session, pv_flags, pv_tasks, pv_calls>>

\* screen_capture_push_frame called by the capture side with its next frame
\* (frames are numbered in the order they arrive).  A call with a null pointer
\* or no data returns 0 and pushes nothing.
PushFrame(valid) ==
    /\ pushed < MaxFrames
    /\ IF valid
       THEN /\ frame_queue' = push_frame(frame_queue, pushed + 1)
            /\ pushed' = pushed + 1
            /\ done' = Some([op |-> "push_frame", res |-> 1])
       ELSE /\ UNCHANGED <<frame_queue, pushed>>
            /\ done' = Some([op |-> "push_frame", res |-> 0])
    /\ UNCHANGED QueueRest

\* ScreenCaptureBridge::pop_frame: pop_front.
PopFrame ==
    /\ IF frame_queue = <<>>
       THEN /\ done' = Some([op |-> "pop_frame", res |-> None])
            /\ UNCHANGED frame_queue
       ELSE /\ done' = Some([op |-> "pop_frame", res |-> Some(Head(frame_queue))])
            /\ frame_queue' = Tail(frame_queue)
    /\ UNCHANGED <<pushed, QueueRest>>

\* ScreenCaptureBridge::clear_frames
ClearFrames ==
    /\ frame_queue' = <<>>
    /\ done' = None
    /\ UNCHANGED <<pushed, QueueRest>>

NextQueue == (\E valid \in BOOLEAN : PushFrame(valid)) \/ PopFrame \/ ClearFrames

SpecQueue == Init /\ [][NextQueue]_vars

\* -------------------------------------------- RecordingState::can_transition_to
\* enum RecordingStatus
Statuses == {"Idle", "Recording", "Paused", "Stopping", "Error"}

\* A can_transition_to whose arm for a transition to the same status comes
\* before the arms for Idle and Error.
can_transition_to_SameFirst(rs, new_status) ==
    CASE rs.status = new_status -> "already"
      [] rs.status = "Idle" /\ new_status = "Recording" -> "ok"
      [] rs.status = "Recording" /\ new_status = "Paused" -> "ok"
      [] rs.status = "Recording" /\ new_status = "Stopping" -> "ok"
      [] rs.status = "Paused" /\ new_status = "Recording" -> "ok"
      [] rs.status = "Paused" /\ new_status = "Stopping" -> "ok"
      [] new_status = "Idle" -> "ok"
      [] new_status = "Error" -> "ok"
      [] OTHER -> "cannot"

\* RecordingState::can_transition_to: "ok", or which of the two errors.  The
\* arms of the match are tried in order.
can_transition_to(rs, new_status) ==
    IF rs.status = "Idle" /\ new_status = "Recording" THEN "ok"
    ELSE IF rs.status = "Recording" /\ new_status = "Paused" THEN "ok"
    ELSE IF rs.status = "Recording" /\ new_status = "Stopping" THEN "ok"
    ELSE IF rs.status = "Paused" /\ new_status = "Recording" THEN "ok"
    ELSE IF rs.status = "Paused" /\ new_status = "Stopping" THEN "ok"
    ELSE IF new_status = "Idle" THEN "ok"
    ELSE IF new_status = "Error" THEN "ok"
    ELSE IF rs.status = new_status THEN "already"
    ELSE "cannot"

\* The sessions can_transition_to is called on: every status, with and
\* without a start time and a pause under way.
StateInputs ==
    {[NewRecordingState(0, "Screen", DefaultConfig) EXCEPT
          !.status = s, !.start_time = st, !.paused_at = pa] :
        s \in Statuses, st \in {None, Some(0)}, pa \in {None, Some(0)}}

InitTransition ==
    /\ now = 0
    /\ lock = "free"
    /\ current_recording \in {Some(rs) : rs \in StateInputs}
    /\ capture_session = None
    /\ duration_task = None
    /\ active_files = <<>>
    /\ procs = <<>>
    /\ tasks = <<>>
    /\ starts = <<>>
    /\ stop = NoStop
    /\ done = None
    /\ failed_stops = {}
    /\ ok_starts = {}
    /\ paused_ms = 0
    /\ stopped = {}
    /\ temp_lock = "free"
    /\ ops = IdleOps
    /\ cfg = DefaultConfig
    /\ InitMore

\* A call of can_transition_to on the session; it changes nothing.
CanTransitionTo(new_status) ==
    /\ done' = Some([op |-> "can_transition_to", new_status |-> new_status,
                     res |-> can_transition_to(Unwrap(current_recording), new_status)])
    /\ UNCHANGED <<now, lock, current_recording, capture_session, duration_task,
                   active_files, procs, tasks, starts, stop, failed_stops, ok_starts,
                   paused_ms, stopped, aux>>

NextTransition == \E new_status \in Statuses : CanTransitionTo(new_status)

SpecTransition == InitTransition /\ [][NextTransition]_vars

\* ------------------------------------------------------------------ claims
\* The response delivered by the last step.
Resp == Unwrap(done)

\* The encoder processes that are running.
Running == {p \in DOMAIN procs : procs[p].st = "running"}

\* Errors with which start_recording returns when the capture fails to start.
StartFailures == {"dependency_missing", "capture_init_failed"}

\* C1: of two start_recording calls that overlap, each having found no stored
\* session at its check, at most one returns Ok (the other is rejected): a
\* call that returns Ok has no overlapping rival that returned Ok.
C1_OneConcurrentStartSucceeds ==
    (IsSome(done) /\ Resp.op = "start" /\ Resp.res = "ok")
        => Resp.conc \cap ok_starts = {}

\* C2: a start_recording call gets past its check only when no session is
\* stored; with a stored session, Recording or Paused, it is rejected.
C2_StartRejectedWhileActive ==
    \A n \in DOMAIN starts : InStart(n) => starts[n].from_idle

\* C3: at most one encoder subprocess is running.
C3_AtMostOneSubprocess == Cardinality(Running) <= 1

\* C4: the stored session is cleared only by a stop_recording call that has
\* finished the capture shutdown, and the subprocess of the cleared session is
\* not running at that moment.
C4_ClearOnlyAfterShutdown ==
    [][(IsSome(current_recording) /\ ~IsSome(current_recording'))
         => /\ stop.pc = "stop_commit"
            /\ IsSome(done') /\ Unwrap(done').op = "stop"
            /\ Unwrap(current_recording).pid \notin Running]_vars

\* C4 witness: a stop_recording call has returned Ok after running the
\* shutdown of the session's subprocess, and no session is stored.
C4_Witness ==
    /\ IsSome(done) /\ Resp.op = "stop" /\ Resp.res = "ok"
    /\ ~IsSome(current_recording)
    /\ procs[Unwrap(Resp.ret).pid].st = "reaped"

\* C5: a stop_recording call that returns Ok with a session of status Idle
\* and a file path does so for a session no earlier stop_recording call has
\* failed on.
C5_FailedStopNeverReportedComplete ==
    (/\ IsSome(done) /\ Resp.op = "stop" /\ Resp.res = "ok"
     /\ Unwrap(Resp.ret).status = "Idle" /\ IsSome(Unwrap(Resp.ret).file_path))
        => Unwrap(Resp.ret).pid \notin failed_stops

\* C6: a pause_recording call returns Ok exactly when the stored session is
\* Recording, and then stores (and returns) that session with status Paused
\* and paused_at set to the time of the call; with no session or a session
\* that is not Recording it returns an error and leaves the stored session
\* unchanged.
C6_PauseOnlyFromRecording ==
    [][(IsSome(done') /\ Unwrap(done').op = "pause")
         => IF IsSome(current_recording) /\ Unwrap(current_recording).status = "Recording"
            THEN /\ Unwrap(done').res = "ok"
                 /\ Unwrap(done').ret = current_recording'
                 /\ Unwrap(current_recording').status = "Paused"
                 /\ Unwrap(current_recording').paused_at = Some(now)
                 /\ [Unwrap(current_recording') EXCEPT !.status = "Recording",
                         !.paused_at = None, !.duration = Unwrap(current_recording).duration]
                       = Unwrap(current_recording)
            ELSE /\ Unwrap(done').res \in {"no_active_recording", "invalid_transition"}
                 /\ Unwrap(done').ret = None
                 /\ current_recording' = current_recording]_vars

\* C6 witness: a pause_recording call has returned Ok and the stored session
\* is Paused.
C6_Witness ==
    /\ IsSome(done) /\ Resp.op = "pause" /\ Resp.res = "ok"
    /\ IsSome(current_recording) /\ Unwrap(current_recording).status = "Paused"
    /\ IsSome(Unwrap(current_recording).paused_at)

\* C7: a resume_recording call returns Ok exactly when the stored session is
\* Paused, and then stores (and returns) that session with now - paused_at
\* added to pause_time, paused_at cleared and status Recording; with no
\* session or a session that is not Paused it returns an error and leaves the
\* stored session unchanged.
C7_ResumeOnlyFromPaused ==
    [][(IsSome(done') /\ Unwrap(done').op = "resume")
         => IF IsSome(current_recording) /\ Unwrap(current_recording).status = "Paused"
            THEN /\ Unwrap(done').res = "ok"
                 /\ Unwrap(done').ret = current_recording'
                 /\ current_recording' =
                       Some([Unwrap(current_recording) EXCEPT
                               !.status = "Recording",
                               !.paused_at = None,
                               !.pause_time = @ + (now - Unwrap(Unwrap(current_recording).paused_at))])
            ELSE /\ Unwrap(done').res \in {"no_active_recording", "invalid_transition"}
                 /\ Unwrap(done').ret = None
                 /\ current_recording' = current_recording]_vars

\* C7 witness: a resume_recording call has returned Ok after a pause that
\* lasted some time: the stored session is Recording with a positive
\* pause_time.
C7_Witness ==
    /\ IsSome(done) /\ Resp.op = "resume" /\ Resp.res = "ok"
    /\ Unwrap(current_recording).status = "Recording"
    /\ Unwrap(current_recording).pause_time > 0

\* The program state a command that fails at once must leave alone.
ManagerState ==
    <<lock, current_recording, capture_session, duration_task, active_files,
      procs, tasks, starts, stop>>

\* C8: a stop_recording call with no stored session returns the
\* no-active-recording error and changes nothing, and a call proceeds only
\* with a stored session; a call whose capture shutdown succeeded returns Ok
\* with the stored session (Recording or Paused before) in status Idle, and
\* no session is stored afterwards.
C8_StopFromRecordingOrPaused ==
    [][/\ (IsSome(done') /\ Unwrap(done').op = "stop"
              /\ Unwrap(done').res = "no_active_recording")
          => (~IsSome(current_recording) /\ ManagerState' = ManagerState)
       /\ (stop.pc = "idle" /\ stop'.pc # "idle") => IsSome(current_recording)
       /\ (stop.pc = "stop_commit" /\ stop'.pc = "idle")
          => (IsSome(done') /\ Unwrap(done').op = "stop" /\ Unwrap(done').res = "ok")
       /\ (IsSome(done') /\ Unwrap(done').op = "stop" /\ Unwrap(done').res = "ok")
          => /\ IsSome(current_recording)
             /\ Unwrap(current_recording).status \in {"Recording", "Paused"}
             /\ Unwrap(Unwrap(done').ret).id = Unwrap(current_recording).id
             /\ Unwrap(Unwrap(done').ret).pid = Unwrap(current_recording).pid
             /\ Unwrap(Unwrap(done').ret).status = "Idle"
             /\ ~IsSome(current_recording')]_vars

\* C8 witness: a stop_recording call whose capture shutdown verified the
\* output file has returned the session with status Idle, and no session is
\* stored.
C8_Witness ==
    /\ IsSome(done) /\ Resp.op = "stop" /\ Resp.res = "ok"
    /\ Unwrap(Resp.ret).status = "Idle"
    /\ Unwrap(Resp.ret).pid \notin failed_stops
    /\ ~IsSome(current_recording)

\* C9: a start_recording call stores nothing, starts no duration task and
\* emits nothing before its last lock block, and a call whose capture failed
\* to start returns an error without reaching that block: it leaves the
\* stored session, the stored capture session and the duration tasks as they
\* were and emits no notification.
C9_FailedStartRetainsNothing ==
    [][/\ (IsSome(done') /\ Unwrap(done').op = "start"
              /\ Unwrap(done').res \in StartFailures)
          => /\ UNCHANGED <<current_recording, capture_session, duration_task, tasks>>
             /\ Unwrap(done').emits = <<>>
             /\ Unwrap(done').ret = None
             /\ starts[Unwrap(done').inv].pc = "start_capture"
       /\ \A n \in DOMAIN starts' :
            (n \notin DOMAIN starts \/ (starts[n].pc # starts'[n].pc
                                          /\ starts[n].pc # "start_commit"))
            => UNCHANGED <<current_recording, capture_session, duration_task, tasks>>]_vars

\* C9 witness: a start_recording call has returned a capture-start error
\* while no session is stored and no duration task exists.
C9_Witness ==
    /\ IsSome(done) /\ Resp.op = "start" /\ Resp.res \in StartFailures
    /\ ~IsSome(current_recording) /\ ~IsSome(capture_session) /\ tasks = <<>>

\* The paths the TempFileManager tracks.
Tracked(af) == {af[i] : i \in DOMAIN af}

\* C10: when start_recording returns a capture-start error, the temp path the
\* call had allocated is no longer tracked by the TempFileManager.
C10_FailedStartRollsBackTempFile ==
    [][(IsSome(done') /\ Unwrap(done').op = "start"
           /\ Unwrap(done').res \in StartFailures)
         => Unwrap(starts[Unwrap(done').inv].path) \notin Tracked(active_files')]_vars

\* C11: a start_recording call whose configuration RecordingConfig::validate
\* rejects goes no further than the construction of its session: it
\* allocates no temp file, spawns no subprocess and stores no session, so
\* every call that has allocated a temp path and every stored session has a
\* configuration that validates.
C11_InvalidConfigRejected ==
    /\ \A n \in DOMAIN starts :
         IsSome(starts[n].path) => validate(Unwrap(starts[n].rs).config)
    /\ IsSome(current_recording) => validate(Unwrap(current_recording).config)

\* C12: a stop_recording call that returns Ok has emitted exactly one
\* notification, recording:stopped, carrying the returned session with its
\* file path.
C12_StopEmitsStopped ==
    (IsSome(done) /\ Resp.op = "stop" /\ Resp.res = "ok")
        => /\ Len(Resp.emits) = 1
           /\ Resp.emits[1].event = "recording:stopped"
           /\ Some(Resp.emits[1].session) = Resp.ret
           /\ IsSome(Resp.emits[1].session.file_path)

\* The stored session.
Cur == Unwrap(current_recording)

\* The pause in progress of a session at clock value t.
CurrentPause(rs, t) == IF IsSome(rs.paused_at) THEN t - Unwrap(rs.paused_at) ELSE 0

\* C13: for the stored session at every moment, start_time and paused_at are
\* not in the future, paused_at is not before start_time, and the
\* accumulated pause time plus the pause in progress does not exceed the time
\* elapsed since start_time: no subtraction of calculate_duration underflows,
\* and its value, elapsed minus total pause, is not negative.
C13_DurationNeverUnderflows ==
    IsSome(current_recording) =>
        /\ IsSome(Cur.start_time)
        /\ Unwrap(Cur.start_time) <= now
        /\ IsSome(Cur.paused_at) =>
              /\ Unwrap(Cur.paused_at) <= now
              /\ Unwrap(Cur.start_time) <= Unwrap(Cur.paused_at)
        /\ Cur.pause_time >= 0
        /\ Cur.pause_time + CurrentPause(Cur, now) <= now - Unwrap(Cur.start_time)
        /\ calculate_duration(Cur, now)
              = (now - Unwrap(Cur.start_time)) - (Cur.pause_time + CurrentPause(Cur, now))
        /\ calculate_duration(Cur, now) >= 0
        /\ Cur.duration >= 0

\* C13 witness: the stored session is in its second pause, with a first pause
\* that lasted some time.
C13_Witness ==
    /\ IsSome(current_recording)
    /\ Cur.status = "Paused" /\ IsSome(Cur.paused_at)
    /\ Cur.pause_time > 0

\* C14: while one session stays stored its duration never decreases from one
\* state to the next, does not change between two states in which it is
\* Paused, and is the same after a resume as before it; the session a stop
\* returns has a duration no smaller than the stored one, and the same one
\* when the session was Paused.
C14_DurationMonotone ==
    [][/\ (/\ IsSome(current_recording) /\ IsSome(current_recording')
           /\ Unwrap(current_recording').pid = Cur.pid)
          => /\ Unwrap(current_recording').duration >= Cur.duration
             /\ (Cur.status = "Paused" /\ Unwrap(current_recording').status = "Paused")
                   => Unwrap(current_recording').duration = Cur.duration
             /\ (IsSome(done') /\ Unwrap(done').op = "resume")
                   => Unwrap(current_recording').duration = Cur.duration
       /\ (IsSome(done') /\ Unwrap(done').op = "stop" /\ Unwrap(done').res = "ok")
          => /\ Unwrap(Unwrap(done').ret).duration >= Cur.duration
             /\ Cur.status = "Paused"
                   => Unwrap(Unwrap(done').ret).duration = Cur.duration]_vars

\* C14 witness: a resume has returned Ok for a session whose pause had frozen
\* a positive duration, and the session still has it.
C14_Witness ==
    /\ IsSome(done) /\ Resp.op = "resume" /\ Resp.res = "ok"
    /\ Cur.status = "Recording" /\ Cur.duration > 0

\* C15: the duration computed for the stored session is the clock time
\* elapsed since start_time minus the clock time the session has spent in
\* status Paused; the duration a pause freezes is that value, and a pause
\* that directly follows a resume freezes the duration the session had.
C15_DurationIsElapsedMinusPaused ==
    [][/\ IsSome(current_recording') =>
            calculate_duration(Unwrap(current_recording'), now')
               = (now' - Unwrap(Unwrap(current_recording').start_time)) - paused_ms'
       /\ (IsSome(done') /\ Unwrap(done').op = "pause" /\ Unwrap(done').res = "ok")
          => /\ Unwrap(current_recording').duration
                  = (now' - Unwrap(Cur.start_time)) - paused_ms'
             /\ (IsSome(done) /\ Resp.op = "resume" /\ Resp.res = "ok")
                  => Unwrap(current_recording').duration = Cur.duration]_vars

\* C15 witness: a pause has directly followed a resume that ended a pause of
\* some length.
C15_Witness ==
    /\ IsSome(done) /\ Resp.op = "pause" /\ Resp.res = "ok"
    /\ Cur.pause_time > 0 /\ paused_ms = Cur.pause_time

\* The stages a call of stop has entered, in order.
Stages(sent) == [k \in DOMAIN sent |-> sent[k].stage]

\* A call of ScreenCaptureSession::stop has returned after waiting for the
\* child.
ScReturned == IsSome(done) /\ Resp.op = "sc_stop" /\ Resp.res # "not_recording"

\* C16: once the child has exited, ScreenCaptureSession::stop returns
\* CaptureStopFailed exactly when the exit status is not zero (a non-zero
\* exit code or a death by signal), or the output file is missing, or it is
\* empty; otherwise it returns the session's output path.
C16_StopVerifiesStatusAndFile ==
    ScReturned =>
        IF Resp.status # "exited_ok" \/ Resp.file = "missing" \/ Resp.file = "empty"
        THEN Resp.res = "capture_stop_failed" /\ Resp.ret = None
        ELSE Resp.res = "ok" /\ Resp.ret = Some(Unwrap(capture_session).output_path)

\* C16 witness: stop has returned the output path for a child that exited
\* with status zero and left a non-empty file.
C16_Witness ==
    /\ ScReturned /\ Resp.res = "ok"
    /\ Resp.status = "exited_ok" /\ Resp.file = "nonempty"

\* C17: every call of ScreenCaptureSession::stop returns, whatever the child
\* does, within the polls of the two windows.
C17_StopReturns ==
    /\ [](stop.pc # "idle" => stop.i <= IntPolls)
    /\ (stop.pc # "idle") ~> (stop.pc = "idle" /\ ScReturned)

\* C17 witness: stop has returned for a child that ignored the quit command
\* and SIGINT and was killed.
C17_Witness ==
    /\ ScReturned
    /\ Stages(Resp.sent) = <<"quit", "int", "kill">>
    /\ Resp.status = "killed"

\* C18: when the child ignored the quit command and SIGINT and was killed,
\* ScreenCaptureSession::stop returns CaptureStopFailed if the output file is
\* missing or empty and the output path if the file is not empty.
C18_KilledChildFileDecides ==
    (ScReturned /\ Resp.status = "killed")
        => IF Resp.file = "nonempty"
           THEN Resp.res = "ok" /\ Resp.ret = Some(Unwrap(capture_session).output_path)
           ELSE Resp.res = "capture_stop_failed"

\* C19: the stages of ScreenCaptureSession::stop are entered in the order
\* quit command, SIGINT, kill, each after the polls of the window before it;
\* SIGINT and the kill are sent only to a child that is still running when
\* the window before them ends, and no stage is entered once a poll has seen
\* the child exited: a child that exits on its own is sent nothing further.
C19_StagesInOrder ==
    [][/\ \A k \in DOMAIN stop'.sent :
            /\ stop'.sent[k].stage = <<"quit", "int", "kill">>[k]
            /\ stop'.sent[k].polls = <<0, QuitPolls, KillPoll + 1>>[k]
       /\ (stop'.pc # "idle" /\ stop'.sent # stop.sent)
             => /\ stop.pc # "sc_wait"
                /\ stop.pc # "sc_quit" => procs[stop.child].st = "running"
       /\ (stop.pc # "idle" /\ procs[stop.child].st \in {"exited_ok", "exited_err"})
             => procs'[stop.child].sig = procs[stop.child].sig
                  \/ procs'[stop.child].st = "reaped"]_vars

\* The child a capture session holds, if any.
Held(cs) ==
    IF IsSome(cs) /\ IsSome(Unwrap(cs).ffmpeg_process)
    THEN {Unwrap(Unwrap(cs).ffmpeg_process)}
    ELSE {}

\* The children held by the capture sessions that exist: the stored one, the
\* locals of the start_recording calls in flight, and the one a
\* stop_recording call in flight is stopping.
Owned ==
    Held(capture_session) \cup Held(stop.cs)
        \cup UNION {Held(starts[n].cs) : n \in DOMAIN starts}

\* C20: a subprocess is running only while a capture session that exists and
\* whose stop has not returned holds it: once stop_recording has returned for
\* a session, with Ok or with the capture-stop error, that session's
\* subprocess is not running, and neither is the subprocess of a session
\* that was dropped.
C20_NoLeakedSubprocess ==
    /\ Running \subseteq Owned
    /\ failed_stops \cap Running = {}
    /\ (IsSome(done) /\ Resp.op = "stop" /\ Resp.res = "ok")
          => Unwrap(Resp.ret).pid \notin Running
    /\ (IsSome(done) /\ Resp.op = "stop" /\ Resp.res # "no_active_recording")
          => ~IsSome(stop.cs)

\* C20 witness: stop_recording has returned the capture-stop error for a
\* session, and the session's subprocess has been waited for.
C20_Witness ==
    /\ IsSome(done) /\ Resp.op = "stop" /\ Resp.res = "capture_stop_failed"
    /\ IsSome(current_recording)
    /\ Cur.pid \in failed_stops
    /\ procs[Cur.pid].st = "reaped"

\* C21: when the spawned encoder has exited with a non-zero status by the
\* time ScreenCaptureSession::start looks at it, start returns
\* CaptureInitFailed and the session holds no child (is_recording is false);
\* a stop called next on that session returns NotRecording.
C21_ImmediateExitFailsStart ==
    [][/\ (/\ IsSome(done') /\ Unwrap(done').op = "sc_start"
           /\ Unwrap(done').outcome = "exited_nonzero")
          => /\ Unwrap(done').res = "capture_init_failed"
             /\ ~IsSome(Unwrap(capture_session').ffmpeg_process)
             /\ procs'[Len(procs')].st # "running"
       /\ (/\ IsSome(done) /\ Resp.op = "sc_start" /\ Resp.res = "capture_init_failed"
           /\ IsSome(done') /\ Unwrap(done').op = "sc_stop")
          => Unwrap(done').res = "not_recording"]_vars

\* C21 witness: start has returned CaptureInitFailed for an encoder that
\* exited at once with a non-zero status, and the session holds no child.
C21_Witness ==
    /\ IsSome(done) /\ Resp.op = "sc_start" /\ Resp.outcome = "exited_nonzero"
    /\ Resp.res = "capture_init_failed"
    /\ Held(capture_session) = {}

\* The notifications the lifecycle commands emit.
LifecycleEvents ==
    {"recording:started", "recording:paused", "recording:resumed", "recording:stopped"}

\* C22: every lifecycle notification a command has emitted was emitted after
\* the command had released the manager lock.
C22_EmitOutsideLock ==
    IsSome(done) /\ Resp.op \in {"start", "pause", "resume", "stop"}
        => \A k \in DOMAIN Resp.emits :
              Resp.emits[k].event \in LifecycleEvents => ~Resp.emits[k].locked

\* C23: while stop_recording is inside the shutdown of the capture session
\* (the polling windows and the wait for the child), the manager lock is
\* free for other callers.
C23_LockFreeDuringShutdown ==
    stop.pc \in {"stop_poll_quit", "stop_poll_int", "stop_wait"} => lock = "free"

\* C24: the session lock and the temp-file registry lock are never taken in
\* opposite orders: whoever holds the registry lock while a block of its still
\* needs the session lock is never seen (nested blocks take the session lock
\* first), so no two operations wait for each other's lock, no operation waits
\* for a lock it holds, and whenever some operation wants a lock some operation
\* can take a step.
C24_LockOrder ==
    /\ \A o \in Ops :
          temp_lock = o => ~Wants(o, "session")
    /\ \A o \in Ops, l \in {"session", "temp"} :
          Wants(o, l) => Holder(l) # o
    /\ \A o1, o2 \in Ops :
          ~(/\ lock = o1 /\ Wants(o1, "temp")
            /\ temp_lock = o2 /\ Wants(o2, "session"))
    /\ (\E o \in Ops : ops[o].blk > 0)
          => \E o \in Ops : ENABLED (OpAcquire(o) \/ OpRelease(o))

\* A nested block holds the session lock and waits for the registry lock,
\* which a dropped RecordingResources holds, while a third operation waits for
\* the session lock.
C24_Witness ==
    /\ lock = "cleanup_temp_files"
    /\ Wants("cleanup_temp_files", "temp")
    /\ temp_lock = "drop_recording_resources"
    /\ Wants("stop_recording", "session")
    /\ Wants("duration_tracker", "session")

\* C25: a duration-tracker tick writes no field of the stored session but
\* duration: the step in which a task takes its snapshot, and every step that
\* changes the stored session without being the return of a command, leaves
\* status, pause_time and paused_at (and every other field) as they were.
C25_TickWritesOnlyDuration ==
    [][/\ (\E k \in DOMAIN tasks : tasks[k].st = "waiting" /\ tasks'[k].st = "emit")
            => /\ IsSome(current_recording) /\ IsSome(current_recording')
               /\ Unwrap(current_recording').status = Cur.status
               /\ Unwrap(current_recording').pause_time = Cur.pause_time
               /\ Unwrap(current_recording').paused_at = Cur.paused_at
       /\ (done' = None /\ current_recording' # current_recording)
            => /\ IsSome(current_recording) /\ IsSome(current_recording')
               /\ [Unwrap(current_recording') EXCEPT !.duration = Cur.duration] = Cur]_vars

\* A tick has just acted on a session that was paused and resumed: its
\* accumulated pause is not zero.
C25_Witness ==
    /\ IsSome(current_recording)
    /\ Cur.pause_time > 0
    /\ \E k \in DOMAIN tasks : tasks[k].st = "emit" /\ tasks[k].snap = current_recording

\* C26: a recording:duration-update event is emitted only for a tick at which
\* the stored session's status is Recording (the snapshot it carries was taken
\* under the lock from a Recording session), and none is emitted while the
\* stored session is Paused or while no session is stored.
C26_UpdateOnlyWhileRecording ==
    [][\A k \in DOMAIN tasks :
          /\ (tasks[k].st = "waiting" /\ tasks'[k].st = "emit")
                => /\ IsSome(current_recording) /\ Cur.status = "Recording"
                   /\ tasks'[k].snap = current_recording'
          /\ (tasks[k].st = "emit" /\ tasks'[k].st # "emit")
                => /\ IsSome(tasks[k].snap)
                   /\ Unwrap(tasks[k].snap).status = "Recording"
                   /\ IsSome(current_recording)
                   /\ Cur.status = "Recording"]_vars

\* C27: a tracker task does not outlive the stored session by more than one
\* tick (a task that has found no session stored has ended: a waiting task
\* whose tick finds the session absent ends in that step), and once
\* stop_recording has returned Ok for a session no recording:duration-update
\* event is emitted for that session any more.
C27_TrackerEndsWithSession ==
    [][\A k \in DOMAIN tasks :
          /\ (tasks[k].st = "waiting" /\ tasks'[k].st = "emit")
                => IsSome(current_recording)
          /\ (tasks[k].st = "emit" /\ tasks'[k].st # "emit")
                => Unwrap(tasks[k].snap).pid \notin stopped]_vars

\* The ranges validate's checks and error messages give the numeric fields.
InRange(c) ==
    /\ c.width \in 1..7680
    /\ c.height \in 1..4320
    /\ c.frame_rate \in 1..120
    /\ c.video_bitrate \in 1..100000
    /\ c.audio_sample_rate \in 8000..192000
    /\ c.audio_channels \in 1..8
    /\ c.audio_bitrate \in 1..512

\* C28: for a configuration with a compatible codec pair, validate_config
\* accepts exactly when every numeric field lies in its range (width 1..7680,
\* height 1..4320, frame rate 1..120, video bitrate 1..100000, sample rate
\* 8000..192000, channels 1..8, audio bitrate 1..512), both ends included.
C28_ValidateRanges ==
    (/\ IsSome(done) /\ Resp.op = "validate_config"
     /\ validate_codec_compatibility(cfg))
        => (Resp.res = "ok" <=> InRange(cfg))

\* validate_config has accepted a configuration with every field at the upper
\* end of its range.
C28_Witness ==
    /\ IsSome(done) /\ Resp.op = "validate_config" /\ Resp.res = "ok"
    /\ cfg.width = 7680 /\ cfg.height = 4320 /\ cfg.frame_rate = 120
    /\ cfg.video_bitrate = 100000 /\ cfg.audio_sample_rate = 192000
    /\ cfg.audio_channels = 8 /\ cfg.audio_bitrate = 512

\* C29: with the numeric fields in range, validate_config accepts exactly when
\* the container is supported and both codecs are among those
\* get_supported_codecs lists for that container.
C29_ValidateAgreesWithSupportedCodecs ==
    (/\ IsSome(done) /\ Resp.op = "validate_config"
     /\ InRange(cfg))
        => (Resp.res = "ok"
              <=> LET s == get_supported_codecs(cfg.output_format)
                  IN /\ IsSome(s)
                     /\ cfg.video_codec \in Unwrap(s).video_codecs
                     /\ cfg.audio_codec \in Unwrap(s).audio_codecs)

\* C30: while a session stays stored (from the start that stored it to the
\* stop that clears it), no step (pause, resume, tracker tick or any other)
\* changes its config, id, recording type, start_time or file_path.
C30_SessionIdentityImmutable ==
    [][(/\ IsSome(current_recording) /\ IsSome(current_recording')
        /\ Unwrap(current_recording').pid = Cur.pid)
          => /\ Unwrap(current_recording').config = Cur.config
             /\ Unwrap(current_recording').id = Cur.id
             /\ Unwrap(current_recording').recording_type = Cur.recording_type
             /\ Unwrap(current_recording').start_time = Cur.start_time
             /\ Unwrap(current_recording').file_path = Cur.file_path]_vars

\* pause_recording has just paused a session that started earlier than now.
C30_Witness ==
    /\ IsSome(done) /\ Resp.op = "pause" /\ Resp.res = "ok"
    /\ IsSome(current_recording)
    /\ Cur.status = "Paused"
    /\ Unwrap(Cur.start_time) < now

\* C31: no two sessions started by start_recording receive the same session
\* id or the same temp output file path: a start_recording that returns Ok
\* while another started session (another subprocess) is stored returns a
\* session whose id and file path differ from the stored one's, and two calls
\* whose captures are both running hold different ids and paths.
C31_UniqueIdAndPath ==
    [][/\ (/\ IsSome(done') /\ Unwrap(done').op = "start" /\ Unwrap(done').res = "ok"
           /\ IsSome(current_recording)
           /\ Unwrap(Unwrap(done').ret).pid # Cur.pid)
             => /\ Unwrap(Unwrap(done').ret).id # Cur.id
                /\ Unwrap(Unwrap(done').ret).file_path # Cur.file_path
       /\ \A n1, n2 \in DOMAIN starts :
             (/\ n1 # n2
              /\ starts[n1].pc = "start_commit" /\ starts[n2].pc = "start_commit")
                => /\ Unwrap(starts[n1].rs).id # Unwrap(starts[n2].rs).id
                   /\ starts[n1].path # starts[n2].path]_vars

\* C32: cleanup_all attempts every tracked path whatever happened to the
\* earlier ones: after it, every tracked path that could be removed is gone,
\* every other file is as it was, the one error it returns names every tracked
\* path that was there and could not be removed (Ok when there is none), and
\* no path is tracked any more.
C32_CleanupAllAggregates ==
    [][(IsSome(done') /\ Unwrap(done').op = "cleanup_temp_files")
          => LET tracked == {active_files[i] : i \in DOMAIN active_files}
                 failed == {p \in tracked : Exists(fs, p) /\ ~RemoveOk(fs, p)}
             IN /\ \A p \in tracked : RemoveOk(fs, p) => ~Exists(fs', p)
                /\ \A p \in Paths :
                      (p \notin tracked \/ ~RemoveOk(fs, p))
                         => fs'.entries[p] = fs.entries[p]
                /\ {Unwrap(done').errors[i] : i \in DOMAIN Unwrap(done').errors} = failed
                /\ (Unwrap(done').res = "err") <=> (failed # {})
                /\ active_files' = <<>>]_vars

\* cleanup_all has reported a failure and has still removed a path tracked
\* after the one that failed.
C32_Witness ==
    /\ IsSome(done) /\ Resp.op = "cleanup_temp_files" /\ Resp.res = "err"
    /\ Resp.tracked = <<"a", "b">>
    /\ Resp.errors = <<"a">>
    /\ "b" \in Resp.removed
    /\ Exists(fs, "a") /\ ~Exists(fs, "b")

\* C33: cleanup_orphaned_files removes nothing but regular files whose age
\* exceeds one hour (3600000 ms) and leaves every other entry, every file of
\* age at most one hour among them, as it was; it returns the number of files
\* it removed; and a file it cannot remove does not end the sweep: every
\* removable file more than 3600 whole seconds old is gone afterwards.
C33_OrphanSweep ==
    [][(IsSome(done') /\ Unwrap(done').op = "cleanup_orphaned_files")
          => LET gone == {p \in Paths : Exists(fs, p) /\ ~Exists(fs', p)}
             IN /\ \A p \in Paths :
                      fs'.entries[p] # fs.entries[p]
                         => /\ p \in gone
                            /\ fs.entries[p].kind = "file"
                            /\ fs.entries[p].age > 3600000
                /\ \A p \in Paths :
                      fs.entries[p].age <= 3600000 => fs'.entries[p] = fs.entries[p]
                /\ Unwrap(done').res = "ok" => Unwrap(done').cleaned = Cardinality(gone)
                /\ Unwrap(done').res = "err" => gone = {}
                /\ \A p \in Paths :
                      (/\ fs.entries[p].kind = "file" /\ fs.entries[p].removable
                       /\ fs.entries[p].age >= 3601000)
                         => p \in gone
                /\ fs'.dir = fs.dir]_vars

\* A sweep has removed one file although an older file visited before it could
\* not be removed, and has left a file of one hour and 999 ms alone.
C33_Witness ==
    /\ IsSome(done) /\ Resp.op = "cleanup_orphaned_files" /\ Resp.res = "ok"
    /\ Resp.cleaned = 1
    /\ fs.entries["a"] = [kind |-> "file", age |-> 3601000, removable |-> FALSE]
    /\ ~Exists(fs, "b")
    /\ fs.entries["c"] = [kind |-> "file", age |-> 3600999, removable |-> TRUE]

\* C34: after every command, one that returns an error included, the manager
\* holds a capture session owning the stored session's subprocess when a
\* session is stored, and holds no capture session when none is stored.
C34_SessionAndCaptureTogether ==
    IsSome(done) =>
        IF IsSome(current_recording)
        THEN Held(capture_session) = {Cur.pid}
        ELSE ~IsSome(capture_session)

\* C35: the session stored in the manager has status Recording or Paused,
\* never Idle, Stopping or Error; a stop_recording that returns Ok returns a
\* copy with status Idle and stores none.
C35_StoredStatusActive ==
    /\ IsSome(current_recording) => Cur.status \in {"Recording", "Paused"}
    /\ (IsSome(done) /\ Resp.op = "stop" /\ Resp.res = "ok")
          => Unwrap(Resp.ret).status = "Idle" /\ ~IsSome(current_recording)

\* resume_recording has returned Ok: the stored session, started, paused and
\* resumed, is Recording again.
C35_Witness ==
    /\ IsSome(done) /\ Resp.op = "resume" /\ Resp.res = "ok"
    /\ IsSome(current_recording)
    /\ Cur.status = "Recording"

\* C36: the stored session's paused_at is set exactly when its status is
\* Paused.
C36_PausedAtIffPaused ==
    IsSome(current_recording) => (IsSome(Cur.paused_at) <=> Cur.status = "Paused")

\* A tracker tick has acted on a session that was paused and resumed with the
\* clock having moved: paused_at is clear again.
C36_Witness ==
    /\ IsSome(current_recording)
    /\ Cur.status = "Recording" /\ ~IsSome(Cur.paused_at)
    /\ Cur.pause_time > 0
    /\ \E k \in DOMAIN tasks : tasks[k].st = "emit" /\ Unwrap(tasks[k].snap).pid = Cur.pid

\* The duration-tracking tasks that have not ended.
AliveTasks == {k \in DOMAIN tasks : tasks[k].st # "ended"}

\* C37: at most one duration-tracking task is alive, and the one that is
\* registered in the manager is the only one that has not been cancelled.
C37_OneDurationTask ==
    /\ Cardinality(AliveTasks) <= 1
    /\ \A k \in AliveTasks : ~tasks[k].cancel => duration_task = Some(k)

\* The polling tasks that run on: not ended, their flag not set, not aborted.
LivePollers ==
    {k \in DOMAIN pv_tasks :
        /\ pv_tasks[k].st # "ended"
        /\ ~pv_flags[pv_tasks[k].flag]
        /\ ~pv_tasks[k].cancel}

\* C38: at most one frame-polling task runs on (has not ended and has neither
\* its stop flag set nor been aborted), and once PreviewCaptureSession::stop
\* has acted last, with no start_preview_for_source call under way, none does.
C38_OnePollerNoneAfterStop ==
    /\ Cardinality(LivePollers) <= 1
    /\ (/\ \A c \in DOMAIN pv_calls : pv_calls[c].pc = "done"
        /\ pv_flags[pv_session.should_stop]
        /\ ~IsSome(pv_session.polling_task))
          => LivePollers = {}

\* C39: the frame queue never holds more than 120 frames; a push onto a queue
\* of 120 removes exactly the oldest frame and appends the new one, a push
\* onto a shorter queue appends; a pop returns the oldest frame and removes
\* it, so frames leave in the order they arrived.
C39_BoundedDropOldestFifo ==
    [][/\ Len(frame_queue') <= 120
       /\ \A i \in 1..(Len(frame_queue') - 1) : frame_queue'[i] < frame_queue'[i + 1]
       /\ pushed' # pushed
            => frame_queue' = IF Len(frame_queue) = 120
                              THEN Append(Tail(frame_queue), pushed')
                              ELSE Append(frame_queue, pushed')
       /\ (IsSome(done') /\ Unwrap(done').op = "pop_frame")
            => IF frame_queue = <<>>
               THEN Unwrap(done').res = None /\ frame_queue' = <<>>
               ELSE /\ Unwrap(done').res = Some(frame_queue[1])
                    /\ frame_queue' = Tail(frame_queue)
                    /\ \A i \in DOMAIN frame_queue' : frame_queue[1] < frame_queue'[i]]_vars

\* Two frames have been pushed onto a full queue: the queue holds 120 frames,
\* the oldest of which is the third that arrived.
C39_Witness ==
    /\ Len(frame_queue) = 120
    /\ frame_queue[1] = 3
    /\ frame_queue[120] = 122
    /\ pushed = 122

\* C40: can_transition_to returns Ok exactly for Idle to Recording, Recording
\* to Paused, Recording to Stopping, Paused to Recording, Paused to Stopping,
\* any status to Idle and any status to Error, and an error for every other
\* pair of the five statuses.
C40_TransitionTable ==
    (IsSome(done) /\ Resp.op = "can_transition_to")
        => (Resp.res = "ok"
              <=> \/ <<Cur.status, Resp.new_status>> \in
                        {<<"Idle", "Recording">>, <<"Recording", "Paused">>,
                         <<"Recording", "Stopping">>, <<"Paused", "Recording">>,
                         <<"Paused", "Stopping">>}
                  \/ Resp.new_status \in {"Idle", "Error"})

\* can_transition_to has accepted Error to Error: the arm for a target of
\* Error comes before the arm for equal statuses.
C40_Witness ==
    /\ IsSome(done) /\ Resp.op = "can_transition_to" /\ Resp.res = "ok"
    /\ Cur.status = "Error" /\ Resp.new_status = "Error"

====
